---- MODULE Spec2Model ----
(***************************************************************************)
(* A model of the agent and tool-execution core of grok-code: the tool     *)
(* suite (file operations, bash), the permission manager, the foreground   *)
(* conversation turn and the sub-agent loops.                              *)
(*                                                                         *)
(* Strings that the code inspects (commands, paths, file contents) are     *)
(* sequences of one-character strings, so that substring tests, regular    *)
(* expressions, splitting and replacement are computed, not assumed.       *)
(***************************************************************************)
EXTENDS Integers, Sequences, FiniteSets, TLC

(***************************************************************************)
(* Text helpers (Python str operations used by the code).                  *)
(***************************************************************************)
LowerLetters ==
  {"a","b","c","d","e","f","g","h","i","j","k","l","m",
   "n","o","p","q","r","s","t","u","v","w","x","y","z"}

UpperLetters ==
  {"A","B","C","D","E","F","G","H","I","J","K","L","M",
   "N","O","P","Q","R","S","T","U","V","W","X","Y","Z"}

Digits == {"0","1","2","3","4","5","6","7","8","9"}

\* str.lower() on one character
LowerChar(c) ==
  CASE c = "A" -> "a" [] c = "B" -> "b" [] c = "C" -> "c" [] c = "D" -> "d"
    [] c = "E" -> "e" [] c = "F" -> "f" [] c = "G" -> "g" [] c = "H" -> "h"
    [] c = "I" -> "i" [] c = "J" -> "j" [] c = "K" -> "k" [] c = "L" -> "l"
    [] c = "M" -> "m" [] c = "N" -> "n" [] c = "O" -> "o" [] c = "P" -> "p"
    [] c = "Q" -> "q" [] c = "R" -> "r" [] c = "S" -> "s" [] c = "T" -> "t"
    [] c = "U" -> "u" [] c = "V" -> "v" [] c = "W" -> "w" [] c = "X" -> "x"
    [] c = "Y" -> "y" [] c = "Z" -> "z" [] OTHER -> c

\* str.lower()
Lower(s) == [i \in 1..Len(s) |-> LowerChar(s[i])]

\* the characters \s matches
WhiteSpace == {" ", "\t", "\n", "\r", "\f"}

\* the characters \w matches
WordChars == LowerLetters \cup UpperLetters \cup Digits \cup {"_"}

\* s[j:j+len(sub)] == sub
StartsAt(sub, s, j) ==
  /\ j + Len(sub) - 1 <= Len(s)
  /\ \A k \in 1..Len(sub) : s[j + k - 1] = sub[k]

\* `sub in s`
Contains(s, sub) == \E j \in 1..(Len(s) + 1) : StartsAt(sub, s, j)

\* str.strip().split()[0], or <<>> when there is no token
FirstToken(s) ==
  LET starts == {j \in 1..Len(s) : s[j] \notin WhiteSpace}
  IN  IF starts = {} THEN <<>>
      ELSE LET b == CHOOSE j \in starts : \A k \in starts : j <= k
               stops == {j \in b..Len(s) : s[j] \in WhiteSpace}
               e == IF stops = {} THEN Len(s)
                    ELSE (CHOOSE j \in stops : \A k \in stops : j <= k) - 1
           IN  SubSeq(s, b, e)

\* str.rsplit("/", 1)[0] for a string that contains "/"
BeforeLastSlash(s) ==
  LET slashes == {j \in 1..Len(s) : s[j] = "/"}
      last == CHOOSE j \in slashes : \A k \in slashes : k <= j
  IN  SubSeq(s, 1, last - 1)

(***************************************************************************)
(* Regular expressions (re.search with re.IGNORECASE), as far as the       *)
(* patterns of permissions.py use them.  A pattern is a sequence of atoms. *)
(***************************************************************************)
AnyChar == {"ANY"}

Lit(chars) == [k |-> "lit", cs |-> {}, str |-> chars, alts |-> <<>>]
One(set)   == [k |-> "one", cs |-> set, str |-> <<>>, alts |-> <<>>]
Opt(set)   == [k |-> "opt", cs |-> set, str |-> <<>>, alts |-> <<>>]
Plus(set)  == [k |-> "plus", cs |-> set, str |-> <<>>, alts |-> <<>>]
Star(set)  == [k |-> "star", cs |-> set, str |-> <<>>, alts |-> <<>>]
Alt(seqs)  == [k |-> "alt", cs |-> {}, str |-> <<>>, alts |-> seqs]
WordB      == [k |-> "wordb", cs |-> {}, str |-> <<>>, alts |-> <<>>]
Bol        == [k |-> "bol", cs |-> {}, str |-> <<>>, alts |-> <<>>]
Eol        == [k |-> "eol", cs |-> {}, str |-> <<>>, alts |-> <<>>]

\* one character against a class ("." matches all but a newline)
InClass(set, c) == IF set = AnyChar THEN c # "\n" ELSE c \in set

IsWordAt(s, j) == j >= 1 /\ j <= Len(s) /\ s[j] \in WordChars

RECURSIVE MatchFrom(_, _, _, _)
\* atoms i.. of pat match s from position j on
MatchFrom(pat, i, s, j) ==
  IF i > Len(pat) THEN TRUE
  ELSE LET a == pat[i]
           here == j <= Len(s) /\ InClass(a.cs, s[j])
       IN  CASE a.k = "lit"  -> StartsAt(a.str, s, j)
                                /\ MatchFrom(pat, i + 1, s, j + Len(a.str))
             [] a.k = "one"  -> here /\ MatchFrom(pat, i + 1, s, j + 1)
             [] a.k = "opt"  -> \/ here /\ MatchFrom(pat, i + 1, s, j + 1)
                                \/ MatchFrom(pat, i + 1, s, j)
             [] a.k = "plus" -> here /\ (\/ MatchFrom(pat, i, s, j + 1)
                                         \/ MatchFrom(pat, i + 1, s, j + 1))
             [] a.k = "star" -> \/ here /\ MatchFrom(pat, i, s, j + 1)
                                \/ MatchFrom(pat, i + 1, s, j)
             [] a.k = "alt"  -> \E n \in 1..Len(a.alts) :
                                   /\ StartsAt(a.alts[n], s, j)
                                   /\ MatchFrom(pat, i + 1, s, j + Len(a.alts[n]))
             [] a.k = "wordb" -> /\ IsWordAt(s, j - 1) # IsWordAt(s, j)
                                 /\ MatchFrom(pat, i + 1, s, j)
             [] a.k = "bol"  -> j = 1 /\ MatchFrom(pat, i + 1, s, j)
             [] a.k = "eol"  -> /\ \/ j = Len(s) + 1
                                   \/ j = Len(s) /\ s[j] = "\n"
                                /\ MatchFrom(pat, i + 1, s, j)

\* re.search(pattern, s, re.IGNORECASE): the patterns are kept in lower case
\* and the subject is lowered
ReSearch(pat, s) ==
  \E lowered \in {Lower(s)} :
    \E j \in 1..(Len(lowered) + 1) : MatchFrom(pat, 1, lowered, j)

(***************************************************************************)
(* Inputs                                                                  *)
(***************************************************************************)
PathX == <<"/", "t", "m", "p", "/", "x">>
PathXRel == <<"x">>
PathY == <<"/", "t", "m", "p", "/", "y">>
PathEnv == <<".", "e", "n", "v">>

TextHi == <<"h", "i">>
TextHH == <<"h", "h">>
TextH == <<"h">>
TextI == <<"i">>

\* a Python file the agents write, with a body that compiles and one that
\* does not
PathPy == <<"a", ".", "p", "y">>
TextPyOk == <<"x", "=", "1">>
TextDefBad == <<"d", "e", "f", " ", "f", "(", ":">>

CmdRmLog == <<"r", "m", " ", "b", "u", "i", "l", "d", ".", "l", "o", "g">>
CmdRmRoot == <<"r", "m", " ", "-", "r", "f", " ", "/">>
CmdRmHome == <<"r", "m", " ", "-", "r", "f", " ", "~", "/", "D", "o", "w", "n", "l", "o", "a", "d", "s">>
CmdDropTable == <<"D", "R", "O", "P", " ", "T", "A", "B", "L", "E", " ", "t">>
CmdRmVerbose == <<"r", "m", " ", "-", "v", " ", "a">>
CmdRmAsk == <<"r", "m", " ", "-", "i", " ", "a">>

\* the paths the file tools are called on: an absolute path, the same file
\* named relative to the working directory, and a second file
FilePaths == {PathX, PathXRel, PathY}

\* the contents written
Contents == {<<>>, TextHi, TextHH}

\* the (offset, limit) pairs of read_file: none given, and an offset past
\* the end of every file of the model
FarOffset == 9

ReadWindows == {<<0, 0>>, <<FarOffset, 0>>}

\* the commands bash is called on
Commands == {CmdRmLog, CmdRmRoot, CmdRmHome, CmdDropTable}

\* the commands bash is called on where what the child does matters
RunCommands == Commands \cup {CmdRmVerbose, CmdRmAsk}

\* what the child process of each command does: what it writes to stdout and
\* to stderr, its return code, and whether it outlives the timeout
Child(stdout, stderr, returncode, timed_out) ==
  [stdout |-> stdout, stderr |-> stderr, returncode |-> returncode,
   timed_out |-> timed_out]

ChildProcess ==
  [command \in RunCommands |->
     IF command = CmdRmVerbose THEN Child(<<"h", "i", "\n">>, <<>>, 0, FALSE)
     ELSE IF command = CmdRmLog THEN Child(<<>>, <<"n", "o", "\n">>, 1, FALSE)
     ELSE IF command = CmdDropTable THEN Child(<<"o", "k">>, <<"w">>, 2, FALSE)
     ELSE IF command = CmdRmAsk THEN Child(<<>>, <<>>, 0, TRUE)
     ELSE Child(<<" ", "\n">>, <<>>, 0, FALSE)]

\* the paths write_file is called on where permissions are checked
GatedPaths == {PathXRel, PathEnv}

(***************************************************************************)
(* permissions.py                                                          *)
(***************************************************************************)
DANGEROUS_BASH_PATTERNS ==
  << [pattern |-> <<Lit(<<"r", "m">>), Plus(WhiteSpace), Lit(<<"-", "r">>), Opt({"f"}), Plus(WhiteSpace), One({"/", "~"})>>,
      desc |-> "Recursive delete in root or home directory"],
    [pattern |-> <<Lit(<<"r", "m">>), Plus(WhiteSpace), Lit(<<"-", "r">>), Opt({"f"}), Plus(WhiteSpace), Lit(<<"*">>)>>,
      desc |-> "Recursive delete with wildcard"],
    [pattern |-> <<Lit(<<"r", "m">>), Plus(WhiteSpace), Lit(<<"-", "r">>), Opt({"f"}), Plus(WhiteSpace), Lit(<<".", ".">>)>>,
      desc |-> "Recursive delete of parent directory"],
    [pattern |-> <<Lit(<<"s", "u", "d", "o">>), Plus(WhiteSpace), Lit(<<"r", "m">>), WordB>>,
      desc |-> "Sudo remove command"],
    [pattern |-> <<Lit(<<":", "(", ")">>), Star(WhiteSpace), Lit(<<"{">>)>>,
      desc |-> "Fork bomb pattern"],
    [pattern |-> <<Lit(<<"m", "k", "f", "s", ".">>)>>,
      desc |-> "Filesystem formatting command"],
    [pattern |-> <<Lit(<<"d", "d">>), Plus(WhiteSpace), Lit(<<"i", "f", "=", "/", "d", "e", "v", "/">>)>>,
      desc |-> "Raw disk write"],
    [pattern |-> <<Lit(<<"c", "h", "m", "o", "d">>), Plus(WhiteSpace), Lit(<<"-", "r">>), Plus(WhiteSpace), Lit(<<"7", "7", "7">>)>>,
      desc |-> "Recursive chmod 777"],
    [pattern |-> <<Lit(<<"c", "h", "o", "w", "n">>), Plus(WhiteSpace), Lit(<<"-", "r">>), Plus(WhiteSpace), Lit(<<"r", "o", "o", "t">>)>>,
      desc |-> "Recursive chown to root"],
    [pattern |-> <<Lit(<<"g", "i", "t">>), Plus(WhiteSpace), Lit(<<"p", "u", "s", "h">>), Plus(WhiteSpace), Star(AnyChar), Lit(<<"-", "-", "f", "o", "r", "c", "e">>)>>,
      desc |-> "Force push to git"],
    [pattern |-> <<Lit(<<"g", "i", "t">>), Plus(WhiteSpace), Lit(<<"r", "e", "s", "e", "t">>), Plus(WhiteSpace), Lit(<<"-", "-", "h", "a", "r", "d">>)>>,
      desc |-> "Hard reset git"],
    [pattern |-> <<Lit(<<"g", "i", "t">>), Plus(WhiteSpace), Lit(<<"c", "l", "e", "a", "n">>), Plus(WhiteSpace), Lit(<<"-", "f", "d">>)>>,
      desc |-> "Clean untracked files"],
    [pattern |-> <<Lit(<<"d", "r", "o", "p">>), Plus(WhiteSpace), Lit(<<"d", "a", "t", "a", "b", "a", "s", "e">>)>>,
      desc |-> "Drop database"],
    [pattern |-> <<Lit(<<"d", "r", "o", "p">>), Plus(WhiteSpace), Lit(<<"t", "a", "b", "l", "e">>)>>,
      desc |-> "Drop table"],
    [pattern |-> <<Lit(<<"t", "r", "u", "n", "c", "a", "t", "e">>), Plus(WhiteSpace), Lit(<<"t", "a", "b", "l", "e">>)>>,
      desc |-> "Truncate table"],
    [pattern |-> <<Lit(<<">">>), Star(WhiteSpace), Lit(<<"/", "d", "e", "v", "/", "s", "d">>), One(LowerLetters)>>,
      desc |-> "Write to block device"] >>
DANGEROUS_FILE_PATTERNS ==
  << [pattern |-> <<Bol, Lit(<<"/">>), Alt(<<<<"e", "t", "c">>, <<"s", "y", "s">>, <<"p", "r", "o", "c">>, <<"d", "e", "v">>, <<"b", "o", "o", "t">>>>), Lit(<<"/">>)>>,
      desc |-> "Write to system directory"],
    [pattern |-> <<Lit(<<".", "s", "s", "h", "/">>)>>,
      desc |-> "Write to SSH directory"],
    [pattern |-> <<Lit(<<".", "a", "w", "s", "/">>)>>,
      desc |-> "Write to AWS credentials"],
    [pattern |-> <<Lit(<<".", "e", "n", "v">>), Eol>>,
      desc |-> "Write to environment file"],
    [pattern |-> <<Lit(<<"c", "r", "e", "d", "e", "n", "t", "i", "a", "l", "s">>)>>,
      desc |-> "Write to credentials file"],
    [pattern |-> <<Lit(<<".", "p", "e", "m">>), Eol>>,
      desc |-> "Write to PEM key file"] >>


\* Python None
None == "None"

\* a dict lookup with a default: args.get(key, default)
Get(args, key, default) == IF key \in DOMAIN args THEN args[key] ELSE default

\* the approval modes (ApprovalMode)
ApprovalModes == {"auto", "approve", "manual"}

\* the least of a set of numbers, or 0 for the empty set
LeastOr0(hits) ==
  IF hits = {} THEN 0 ELSE CHOOSE n \in hits : \A h \in hits : n <= h

\* the first pattern of a table that matches, or 0
FirstMatch(table, s) ==
  LeastOr0({n \in 1..Len(table) : ReSearch(table[n].pattern, s)})

\* the description of the n-th pattern, None for n = 0
DescAt(table, n) == IF n = 0 THEN None ELSE table[n].desc

\* the loop of _is_dangerous_bash and _is_dangerous_file: the description of
\* the first pattern that matches
FirstDesc(table, s) == DescAt(table, FirstMatch(table, s))

\* the strings of the model that a classifier can be asked about; a function
\* over them is computed once
CommandTexts == RunCommands \cup {<<>>}

PathTexts == FilePaths \cup GatedPaths \cup {PathPy, <<>>}

\* PermissionManager._is_dangerous_bash
is_dangerous_bash ==
  [command \in CommandTexts |-> FirstDesc(DANGEROUS_BASH_PATTERNS, command)]

\* PermissionManager._is_dangerous_file
is_dangerous_file ==
  [path \in PathTexts |-> FirstDesc(DANGEROUS_FILE_PATTERNS, path)]

BashText == <<"b", "a", "s", "h">>

\* the name of a tool as an approval key (str(tool)); the model keeps the
\* name whole
ToolNameText(tool) == <<tool>>

\* _get_approval_key for bash: the first word of the command
OrBash(parts0) == IF parts0 # <<>> THEN parts0 ELSE BashText

bash_approval_key ==
  [command \in CommandTexts |-> OrBash(FirstToken(command))]

\* _get_approval_key for write_file and edit_file: the directory pattern
file_approval_key ==
  [path \in PathTexts |->
     IF Contains(path, <<"/">>)
     THEN BeforeLastSlash(path) \o <<"/", "*">>
     ELSE path]

get_approval_key(tool, args) ==
  IF tool = "bash" THEN bash_approval_key[Get(args, "command", <<>>)]
  ELSE IF tool \in {"write_file", "edit_file"}
  THEN file_approval_key[Get(args, "file_path", <<>>)]
  ELSE ToolNameText(tool)

\* pm is the PermissionManager: [mode, session_approvals, persistent_approvals];
\* an approvals dict (tool -> set of keys) is the set of its <<tool, key>> pairs
\* only the approvals of .grok/permissions.json count
persistent_only(pm, tool, key) == <<tool, key>> \in pm.persistent_approvals

is_approved(pm, tool, key) ==
  \/ <<tool, key>> \in pm.session_approvals
  \/ <<tool, key>> \in pm.persistent_approvals

\* check_permission with the auto mode asked before the classifier
DecideAutoFirst(pm, tool, approval_key, danger_reason) ==
  [allowed |-> \/ pm.mode = "auto"
               \/ is_approved(pm, tool, approval_key)
               \/ pm.mode = "approve" /\ danger_reason = None
                  /\ tool \notin {"write_file", "edit_file", "bash"},
   danger_reason |-> IF pm.mode = "auto" \/ is_approved(pm, tool, approval_key)
                     THEN None ELSE danger_reason,
   approval_key |-> approval_key]

\* check_permission with the approve mode asking for every tool
DecideApproveAll(pm, tool, approval_key, danger_reason) ==
  IF danger_reason # None
  THEN [allowed |-> is_approved(pm, tool, approval_key),
        danger_reason |-> IF is_approved(pm, tool, approval_key)
                          THEN None ELSE danger_reason,
        approval_key |-> approval_key]
  ELSE [allowed |-> pm.mode = "auto" \/ is_approved(pm, tool, approval_key),
        danger_reason |-> None,
        approval_key |-> approval_key]

\* the checks of check_permission once the key and the classifier's reason
\* are known: [allowed, danger_reason, approval_key]
Decide(pm, tool, approval_key, danger_reason) ==
  IF danger_reason # None
  THEN IF is_approved(pm, tool, approval_key)
       THEN [allowed |-> TRUE, danger_reason |-> None, approval_key |-> approval_key]
       ELSE [allowed |-> FALSE, danger_reason |-> danger_reason,
             approval_key |-> approval_key]
  ELSE IF pm.mode = "auto"
  THEN [allowed |-> TRUE, danger_reason |-> None, approval_key |-> approval_key]
  ELSE IF is_approved(pm, tool, approval_key)
  THEN [allowed |-> TRUE, danger_reason |-> None, approval_key |-> approval_key]
  ELSE IF pm.mode = "approve"
  THEN [allowed |-> tool \notin {"write_file", "edit_file", "bash"},
        danger_reason |-> None, approval_key |-> approval_key]
  ELSE [allowed |-> FALSE, danger_reason |-> None, approval_key |-> approval_key]

\* the classifier for the tool
danger_reason_of(tool, args) ==
  IF tool = "bash" THEN is_dangerous_bash[Get(args, "command", <<>>)]
  ELSE IF tool \in {"write_file", "edit_file"}
  THEN is_dangerous_file[Get(args, "file_path", <<>>)]
  ELSE None

\* PermissionManager.check_permission
check_permission(pm, tool, args) ==
  Decide(pm, tool, get_approval_key(tool, args), danger_reason_of(tool, args))

\* PermissionManager.approve
approve(pm, tool, key, persistent) ==
  [pm EXCEPT !.session_approvals = @ \cup {<<tool, key>>},
             !.persistent_approvals = IF persistent THEN @ \cup {<<tool, key>>} ELSE @]

\* PermissionManager.deny
deny(pm, tool, key) ==
  [pm EXCEPT !.session_approvals = @ \ {<<tool, key>>},
             !.persistent_approvals = @ \ {<<tool, key>>}]

\* the approval keys a tool's calls can have
ApprovalKeys(tool) ==
  IF tool = "bash" THEN {bash_approval_key[c] : c \in CommandTexts}
  ELSE IF tool \in {"write_file", "edit_file"}
  THEN {file_approval_key[p] : p \in PathTexts}
  ELSE {ToolNameText(tool)}

\* PermissionManager.approve_pattern(tool, pattern) and
\* PermissionManager.approve_all_for_tool(tool), which approve.py calls and
\* permissions.py does not have: the entry, or every entry of the tool, is
\* approved for the session
approve_pattern(pm, tool, pattern) ==
  [pm EXCEPT !.session_approvals = @ \cup {<<tool, pattern>>}]

approve_all_for_tool(pm, tool) ==
  [pm EXCEPT !.session_approvals = @ \cup {<<tool, k>> : k \in ApprovalKeys(tool)}]

\* the module-level helper bash.py imports; it is not in permissions.py
Requires(r) ==
  [allowed |-> r.allowed,
   message |-> IF r.danger_reason # None THEN r.danger_reason ELSE "needs approval"]

\* check_requires_permission(tool, args): the answer of check_permission as
\* the pair (allowed, message) that BashTool.execute unpacks
check_requires_permission(pm, tool, args) == Requires(check_permission(pm, tool, args))


(***************************************************************************)
(* tools/file_ops.py                                                       *)
(*                                                                         *)
(* The file system is a function from the absolute paths of the files that *)
(* exist to their contents.  A tool result is the string the tool returns: *)
(* [prefix, text, arg], the words it starts with, the message that         *)
(* follows, and the path or text the message quotes.                       *)
(***************************************************************************)
Result(prefix, text, arg) == [prefix |-> prefix, text |-> text, arg |-> arg]

\* the result string starts with "Error:"
IsErrorResult(r) == r.prefix = "Error:"

\* the working directory (Path.cwd())
Cwd == <<"/", "t", "m", "p">>

\* Path(file_path).expanduser(), made absolute against the working directory
\* and resolved; the model has no symbolic links and no "~" or ".." in paths
ResolvePath(file_path) ==
  IF Len(file_path) > 0 /\ file_path[1] = "/" THEN file_path
  ELSE Cwd \o <<"/">> \o file_path

mark_file_read(rs, file_path) == rs \cup {ResolvePath(file_path)}

\* every file counts as read
always_read(rs, file_path) == TRUE

has_file_been_read(rs, file_path) == ResolvePath(file_path) \in rs

\* the path stays in the set
keep_read(rs, file_path) == rs

unmark_file_read(rs, file_path) == rs \ {ResolvePath(file_path)}

\* len(f.readlines())
NumLines(content) ==
  LET nl == Cardinality({j \in 1..Len(content) : content[j] = "\n"})
  IN  IF Len(content) > 0 /\ content[Len(content)] # "\n" THEN nl + 1 ELSE nl

\* ReadTool.execute; offset and limit are 0 when the caller gives none
ReadTool_execute(fs, rs, file_path, offset, limit) ==
  LET path == ResolvePath(file_path) IN
  IF path \notin DOMAIN fs
  THEN [files |-> fs, read_files |-> rs,
        result |-> Result("Error:", "File not found", path)]
  ELSE LET lines == NumLines(fs[path])
           start_idx == IF offset > 0 THEN offset - 1 ELSE 0
           end_idx == IF limit # 0 THEN start_idx + limit ELSE lines
           top == IF end_idx < lines THEN end_idx ELSE lines
           selected == IF top > start_idx THEN top - start_idx ELSE 0
       IN  [files |-> fs, read_files |-> mark_file_read(rs, path),
            result |-> IF selected = 0 THEN Result("", "(empty file)", <<>>)
                       ELSE Result("", "lines", fs[path])]

\* WriteTool.execute
WriteTool_execute(fs, rs, file_path, content) ==
  LET path == ResolvePath(file_path) IN
  IF path \in DOMAIN fs /\ ~has_file_been_read(rs, path)
  THEN [files |-> fs, read_files |-> rs,
        result |-> Result("Error:", "Cannot write - file exists but has not been read first", path)]
  ELSE [files |-> [p \in DOMAIN fs \cup {path} |-> IF p = path THEN content ELSE fs[p]],
        read_files |-> unmark_file_read(rs, path),
        result |-> Result("Successfully", "wrote", path)]

RECURSIVE CountFrom(_, _, _)
\* str.count(sub) from position j on (occurrences that do not overlap)
CountFrom(s, sub, j) ==
  IF j + Len(sub) - 1 > Len(s) THEN 0
  ELSE IF StartsAt(sub, s, j) THEN 1 + CountFrom(s, sub, j + Len(sub))
  ELSE CountFrom(s, sub, j + 1)

RECURSIVE ReplaceFrom(_, _, _, _, _)
\* str.replace(old, new, max) from position j on; max < 0 replaces all
ReplaceFrom(s, old, new, j, max) ==
  IF j > Len(s) THEN <<>>
  ELSE IF max # 0 /\ StartsAt(old, s, j)
  THEN new \o ReplaceFrom(s, old, new, j + Len(old), max - 1)
  ELSE <<s[j]>> \o ReplaceFrom(s, old, new, j + 1, max)

\* EditTool.execute, for a non-empty old_string
EditTool_execute(fs, rs, file_path, old_string, new_string, replace_all) ==
  LET path == ResolvePath(file_path)
      same(r) == [files |-> fs, read_files |-> rs, result |-> r]
  IN
  IF path \notin DOMAIN fs THEN same(Result("Error:", "File not found", path))
  ELSE IF ~has_file_been_read(rs, path)
  THEN same(Result("Error:", "Cannot edit - file has not been read first", path))
  ELSE LET content == fs[path]
           count == CountFrom(content, old_string, 1)
       IN  IF ~Contains(content, old_string)
           THEN same(Result("Error:", "Could not find the specified string", path))
           ELSE IF count > 1 /\ ~replace_all
           THEN same(Result("Error:", "Found several occurrences of the string", path))
           ELSE [files |-> [fs EXCEPT ![path] =
                              ReplaceFrom(content, old_string, new_string, 1,
                                          IF replace_all THEN -1 ELSE 1)],
                 read_files |-> unmark_file_read(rs, path),
                 result |-> Result("Successfully", "replaced", path)]


(***************************************************************************)
(* tools/bash.py                                                           *)
(***************************************************************************)
\* the always-refused substrings of BashTool.execute
dangerous_patterns ==
  << <<"r", "m", " ", "-", "r", "f", " ", "/">>,
     <<"r", "m", " ", "-", "r", "f", " ", "/", "*">>,
     <<":", "(", ")", "{", ":", "|", ":", "&", "}", ";", ":">>,
     <<"m", "k", "f", "s", ".">>,
     <<"d", "d", " ", "i", "f", "=", "/", "d", "e", "v", "/", "z", "e", "r", "o">>,
     <<">", " ", "/", "d", "e", "v", "/", "s", "d", "a">> >>

\* the safety check of BashTool.execute: some pattern is in command.lower()
has_dangerous_pattern ==
  [command \in CommandTexts |->
     \E n \in 1..Len(dangerous_patterns) :
       Contains(Lower(command), dangerous_patterns[n])]

\* str(n) of a natural number
DigitChars == <<"0", "1", "2", "3", "4", "5", "6", "7", "8", "9">>

RECURSIVE Str(_)
Str(n) ==
  IF n < 10 THEN <<DigitChars[n + 1]>>
  ELSE Str(n \div 10) \o <<DigitChars[(n % 10) + 1]>>

\* text.strip() is empty
IsBlank(s) == \A j \in 1..Len(s) : s[j] \in WhiteSpace

\* "\n".join(parts)
RECURSIVE JoinLines(_)
JoinLines(parts) ==
  IF parts = <<>> THEN <<>>
  ELSE IF Len(parts) = 1 THEN parts[1]
  ELSE parts[1] \o <<"\n">> \o JoinLines(Tail(parts))

StderrHead == <<"S", "T", "D", "E", "R", "R", ":", "\n">>
ExitCodeHead == <<"\n", "E", "x", "i", "t", " ", "c", "o", "d", "e", ":", " ">>
NoOutput == <<"(", "n", "o", " ", "o", "u", "t", "p", "u", "t", ")">>
TruncatedHead == <<"\n", "\n", ".", ".", ".", " ", "(", "t", "r", "u", "n", "c", "a", "t", "e", "d", ",", " ">>
TruncatedTail == <<" ", "t", "o", "t", "a", "l", " ", "c", "h", "a", "r", "a", "c", "t", "e", "r", "s", ")">>

\* max_length of BashTool.execute
max_length == 50000

\* the output without its standard output part
stderr_only(stdout, stderr, returncode) ==
  JoinLines((IF IsBlank(stderr) THEN <<>> ELSE <<StderrHead \o stderr>>)
            \o (IF returncode # 0 THEN <<ExitCodeHead \o Str(returncode)>> ELSE <<>>))

\* output_parts of BashTool.execute, joined
output_parts(stdout, stderr, returncode) ==
  JoinLines((IF IsBlank(stdout) THEN <<>> ELSE <<stdout>>)
            \o (IF IsBlank(stderr) THEN <<>> ELSE <<StderrHead \o stderr>>)
            \o (IF returncode # 0 THEN <<ExitCodeHead \o Str(returncode)>> ELSE <<>>))

\* the end of BashTool.execute: (no output) for no parts, and the cut at
\* max_length
Truncated(result) ==
  IF result = <<>> THEN NoOutput
  ELSE IF Len(result) > max_length
  THEN SubSeq(result, 1, max_length) \o TruncatedHead \o Str(Len(result))
         \o TruncatedTail
  ELSE result

\* BashTool.execute from the creation of the child process on, in the
\* foreground: the wait for the child, and the string made of what it wrote
Ran(command, child) ==
  IF child.timed_out
  THEN Result("Error:", "Command timed out", command)
  ELSE Result("", "output",
              Truncated(output_parts(child.stdout, child.stderr, child.returncode)))

\* BashTool.execute without its list of refused substrings
Ungated(command, gate) ==
  IF ~gate.allowed
  THEN [spawn |-> FALSE, result |-> Result("Permission required:", gate.message, command)]
  ELSE [spawn |-> TRUE, result |-> Ran(command, ChildProcess[command])]

\* BashTool.execute, with gate the answer of the permission check: spawn
\* says whether asyncio.create_subprocess_shell is reached
Gated(command, gate) ==
  IF has_dangerous_pattern[command]
  THEN [spawn |-> FALSE,
        result |-> Result("Error:", "Refusing to execute potentially dangerous command", command)]
  ELSE IF ~gate.allowed
  THEN [spawn |-> FALSE, result |-> Result("Permission required:", gate.message, command)]
  ELSE [spawn |-> TRUE, result |-> Ran(command, ChildProcess[command])]

BashTool_execute(pm, command) ==
  Gated(command, check_requires_permission(pm, "bash", [command |-> command]))

(***************************************************************************)
(* tools/approve.py                                                        *)
(***************************************************************************)
\* ApproveOperationTool.execute(tool, pattern, approve_all): [pm, result]
ApproveOperationTool_execute(pm, tool, pattern, approve_all) ==
  IF approve_all
  THEN [pm |-> approve_all_for_tool(pm, tool),
        result |-> Result("Approved", "all operations this session", <<>>)]
  ELSE IF pattern # <<>>
  THEN [pm |-> approve_pattern(pm, tool, pattern),
        result |-> Result("Approved", "pattern", pattern)]
  ELSE [pm |-> pm, result |-> Result("[APPROVAL REQUEST]", "", <<>>)]

(***************************************************************************)
(* tools/tasks.py                                                          *)
(*                                                                         *)
(* The TaskStore is [tasks, counter, issued]: tasks maps the ids in use to *)
(* [subject, status]; issued records, in order, the ids create has given.  *)
(***************************************************************************)
TaskStatuses == {"pending", "in_progress", "completed", "deleted"}

\* TaskStore.create
TaskStore_create(store, subject) ==
  LET task_id == store.counter + 1
  IN  [tasks |-> [i \in DOMAIN store.tasks \cup {task_id} |->
                    IF i = task_id THEN [subject |-> subject, status |-> "pending"]
                    ELSE store.tasks[i]],
       counter |-> task_id,
       issued |-> Append(store.issued, task_id)]

\* TaskStore.update with a status keyword, for a task that exists
TaskStore_update(store, task_id, status) ==
  IF status = "deleted"
  THEN [store EXCEPT !.tasks = [i \in DOMAIN store.tasks \ {task_id} |-> store.tasks[i]]]
  ELSE [store EXCEPT !.tasks[task_id].status = status]

\* TaskStore.clear
TaskStore_clear(store) == [store EXCEPT !.tasks = <<>>, !.counter = 0]

\* TaskUpdateTool.execute
TaskUpdateTool_execute(store, args) ==
  LET task_id == Get(args, "task_id", 0)
      status == Get(args, "status", None)
  IN  IF task_id \notin DOMAIN store.tasks
      THEN [store |-> store, result |-> Result("Error:", "Task not found", <<>>)]
      ELSE IF status = None
      THEN [store |-> store, result |-> Result("Task", "updated", <<>>)]
      ELSE IF status \notin TaskStatuses
      THEN [store |-> store, result |-> Result("Error executing", "task_update", <<>>)]
      ELSE [store |-> TaskStore_update(store, task_id, status),
            result |-> IF status = "deleted" THEN Result("Task", "deleted", <<>>)
                       ELSE Result("Task", "updated", <<>>)]

(***************************************************************************)
(* tools/registry.py                                                       *)
(*                                                                         *)
(* The world is every store a tool can touch:                              *)
(* [files, read_files, pm, spawned, store].                                *)
(***************************************************************************)
\* the names create_default_registry registers
RegisteredTools ==
  {"read_file", "write_file", "edit_file", "bash", "bash_output", "glob", "grep",
   "task", "task_output", "task_create", "task_update", "task_list", "task_get",
   "enter_plan_mode", "write_plan", "exit_plan_mode", "ask_user",
   "web_fetch", "web_search", "approve_operation"}

\* what a tool's return makes of the world: [w, result, spawn], spawn saying
\* whether the call created a child process
FileOutcome(w, r) ==
  [w |-> [w EXCEPT !.files = r.files, !.read_files = r.read_files],
   result |-> r.result, spawn |-> FALSE]

BashOutcome(w, command, r) ==
  [w |-> [w EXCEPT !.spawned = IF r.spawn THEN @ \cup {command} ELSE @],
   result |-> r.result, spawn |-> r.spawn]

TaskOutcome(w, r) ==
  [w |-> [w EXCEPT !.store = r.store], result |-> r.result, spawn |-> FALSE]

ApproveOutcome(w, r) ==
  [w |-> [w EXCEPT !.pm = r.pm], result |-> r.result, spawn |-> FALSE]

\* ToolRegistry.execute for the tools that run to completion inside the call
\* (the task tool, which runs a sub-agent, is a step of the loops below)
ToolRegistry_execute(w, name, args) ==
  IF name \notin RegisteredTools
  THEN [w |-> w, result |-> Result("Error:", "Unknown tool", <<>>), spawn |-> FALSE]
  ELSE CASE name = "read_file" ->
              FileOutcome(w, ReadTool_execute(w.files, w.read_files, args.file_path,
                                              Get(args, "offset", 0), Get(args, "limit", 0)))
         [] name = "write_file" ->
              FileOutcome(w, WriteTool_execute(w.files, w.read_files, args.file_path,
                                               args.content))
         [] name = "edit_file" ->
              FileOutcome(w, EditTool_execute(w.files, w.read_files, args.file_path,
                                              args.old_string, args.new_string,
                                              Get(args, "replace_all", FALSE)))
         [] name = "bash" ->
              BashOutcome(w, args.command, BashTool_execute(w.pm, args.command))
         [] name = "task_update" ->
              TaskOutcome(w, TaskUpdateTool_execute(w.store, args))
         [] name = "task_create" ->
              [w |-> [w EXCEPT !.store = TaskStore_create(w.store, args.subject)],
               result |-> Result("Task", "created", <<>>), spawn |-> FALSE]
         [] name = "approve_operation" ->
              ApproveOutcome(w, ApproveOperationTool_execute(
                                  w.pm, args.tool, Get(args, "pattern", <<>>),
                                  Get(args, "approve_all", FALSE)))
         [] OTHER -> [w |-> w, result |-> Result("", "output", <<>>), spawn |-> FALSE]


(***************************************************************************)
(* client.py, conversation.py: messages                                    *)
(*                                                                         *)
(* A message is [role, content, tool_calls, tool_call_id, name]; a content *)
(* is a result string or a text.  A tool call is [id, name, arguments].    *)
(***************************************************************************)
Text(t) == Result("", t, <<>>)

Message(role, content, tool_calls, tool_call_id, name) ==
  [role |-> role, content |-> content, tool_calls |-> tool_calls,
   tool_call_id |-> tool_call_id, name |-> name]

\* the system message an agent run starts with
SystemMessage == Message("system", Text("system prompt"), <<>>, None, None)

UserMessage(t) == Message("user", Text(t), <<>>, None, None)

\* the text of an assistant message of the model
ReplyText == TextHi

\* Conversation.add_user_message
add_user_message(messages, t) == Append(messages, UserMessage(t))

\* Conversation.add_assistant_message
add_assistant_message(messages, tool_calls) ==
  Append(messages, Message("assistant", Text("reply"), tool_calls, None, None))

\* a conversation that loses the observation
drop_tool_result(messages, tool_call, result) == messages

\* Conversation.add_tool_result, and the Message(role="tool", ...) the agents
\* append
add_tool_result(messages, tool_call, result) ==
  Append(messages, Message("tool", result, <<>>, tool_call.id, tool_call.name))

\* _get_active_plan_tasks: one line for every task of the store that is
\* pending or in_progress, in the order of the store, from task i on (the
\* two header lines come before them whenever there is one)
RECURSIVE ActiveLines(_, _)
ActiveLines(st, i) ==
  IF i > st.counter THEN <<>>
  ELSE (IF i \in DOMAIN st.tasks /\ st.tasks[i].status \in {"pending", "in_progress"}
        THEN <<[status_icon |-> IF st.tasks[i].status = "in_progress"
                                THEN "half" ELSE "box",
                id |-> i, subject |-> st.tasks[i].subject]>>
        ELSE <<>>) \o ActiveLines(st, i + 1)

get_active_plan_tasks(st) == ActiveLines(st, 1)

\* _build_system_prompt(include_tasks=True) with the task store st: the
\* prompt of the working directory and the project files, then the active
\* tasks if there are any
build_system_prompt(st) == Result("", "system prompt", get_active_plan_tasks(st))

\* Conversation._init_system_prompt
init_system_prompt(messages, st) ==
  Append(messages, Message("system", build_system_prompt(st), <<>>, None, None))

\* a clear that forgets to empty the list
append_prompt(messages, st) == init_system_prompt(messages, st)

\* Conversation.clear
Conversation_clear(messages, st) == init_system_prompt(<<>>, st)

\* Conversation.refresh_task_context: the system message is rebuilt
refresh_task_context(messages, st) ==
  IF Len(messages) > 0 /\ messages[1].role = "system"
  THEN [messages EXCEPT ![1] = Message("system", build_system_prompt(st), <<>>, None, None)]
  ELSE messages

\* the tool calls of the n-th response of a conversation, with the ids the
\* API gives them
ToolCalls(n, cs) ==
  [j \in 1..Len(cs) |-> [id |-> <<n, j>>, name |-> cs[j].name,
                         arguments |-> cs[j].arguments]]


(***************************************************************************)
(* agents/: the sub-agents                                                 *)
(***************************************************************************)
\* the agents the plugin registry holds: name -> the tools of the frontmatter
\* (helper names none: every tool is offered to it)
PluginAgents == [reviewer |-> {"read_file", "task_update"}, helper |-> {}]

\* AgentType
AgentTypes == {"explore", "plan", "general", "bash"}

\* the allowed_tools of ExploreAgent, PlanAgent and GeneralAgent
ExploreTools == {"read_file", "glob", "grep"}

PlanTools == {"read_file", "glob", "grep", "write_file"}

GeneralTools == {}

\* max_turns of the run loops
ExploreMaxTurns == 10
PlanMaxTurns == 15
GeneralMaxTurns == 30
PluginMaxTurns == 50

\* run loops that all go on for one turn more than the longest
one_more_turn(class) == PluginMaxTurns + 1

max_turns(class) ==
  CASE class = "explore" -> ExploreMaxTurns
    [] class = "plan" -> PlanMaxTurns
    [] class = "general" -> GeneralMaxTurns
    [] OTHER -> PluginMaxTurns

\* the agent classes: what the constructors give
ExploreAgent == [class |-> "explore", allowed_tools |-> ExploreTools]

PlanAgent == [class |-> "plan", allowed_tools |-> PlanTools]

GeneralAgent == [class |-> "general", allowed_tools |-> GeneralTools]

PluginAgent(name) == [class |-> "plugin", allowed_tools |-> PluginAgents[name]]

\* AgentRunner.create_agent
create_agent(agent_type) ==
  IF agent_type \in DOMAIN PluginAgents THEN PluginAgent(agent_type)
  ELSE LET t == IF agent_type \in AgentTypes THEN agent_type ELSE "explore"
       IN  IF t = "explore" THEN ExploreAgent
           ELSE IF t = "plan" THEN PlanAgent
           ELSE ExploreAgent

\* path.suffix.lower() == ".py"
IsPython(file_path) ==
  /\ Len(file_path) > 3
  /\ Lower(SubSeq(file_path, Len(file_path) - 2, Len(file_path))) = <<".", "p", "y">>
  /\ file_path[Len(file_path) - 3] # "/"

\* python -m py_compile on the contents of the model: `def f(:` is the one
\* that does not compile
py_compile(content) == content # TextDefBad

\* check_file_syntax: a file that does not exist is skipped; the paths of the
\* model are Python files or have no suffix
check_file_syntax(fs, file_path) ==
  LET path == ResolvePath(file_path)
  IN  IF path \notin DOMAIN fs THEN TRUE
      ELSE IF IsPython(path) THEN py_compile(fs[path])
      ELSE TRUE

\* a validation that finds nothing
validate_nothing(fs, files_modified) == TRUE

\* validate_modified_files: all_valid
validate_modified_files(fs, files_modified) ==
  \A f \in files_modified : check_file_syntax(fs, f)

\* the observation of a tool call outside the allow-list
NotAllowed(name) == Result("Error:", "Tool not allowed for this agent", name)

\* the observations of a refused task_update status=completed
NoFilesModified ==
  Result("Error:", "Cannot mark task complete - no files have been modified", <<>>)

HasSyntaxErrors ==
  Result("Error:", "Cannot mark task complete - files have syntax errors", <<>>)

\* `- [ ] ` of PlanAgent._extract_and_create_tasks
Checkbox == <<"-", " ", "[", " ", "]", " ">>

\* the end of the line that position j is on
RECURSIVE LineEnd(_, _)
LineEnd(s, j) ==
  IF j >= Len(s) \/ s[j + 1] = "\n" THEN j ELSE LineEnd(s, j + 1)

\* str.strip()
RECURSIVE Strip(_)
Strip(s) ==
  IF s = <<>> THEN s
  ELSE IF s[1] \in WhiteSpace THEN Strip(Tail(s))
  ELSE IF s[Len(s)] \in WhiteSpace THEN Strip(SubSeq(s, 1, Len(s) - 1))
  ELSE s

\* re.findall(r'- \[ \] (.+?)(?:\n|$)', content) from position j on, stripped
RECURSIVE FindTasks(_, _)
FindTasks(s, j) ==
  IF j > Len(s) THEN <<>>
  ELSE IF StartsAt(Checkbox, s, j) /\ j + 6 <= Len(s) /\ s[j + 6] # "\n"
  THEN LET e == LineEnd(s, j + 6)
       IN  <<Strip(SubSeq(s, j + 6, e))>> \o FindTasks(s, e + 2)
  ELSE FindTasks(s, j + 1)

\* PlanAgent._extract_and_create_tasks: pt is [store, tasks], the task store
\* and the agent's _tasks
RECURSIVE CreateTasks(_, _)
CreateTasks(pt, subjects) ==
  IF subjects = <<>> THEN pt
  ELSE LET s == Head(subjects)
       IN  IF s # <<>> /\ s \notin pt.tasks
           THEN CreateTasks([store |-> TaskStore_create(pt.store, s),
                             tasks |-> pt.tasks \cup {s}], Tail(subjects))
           ELSE CreateTasks(pt, Tail(subjects))

extract_and_create_tasks(store, tasks, content) ==
  CreateTasks([store |-> store, tasks |-> tasks], FindTasks(content, 1))

\* an agent is [pc, by, requested, class, allowed_tools, messages, calls,
\* idx, turn, files_modified, consecutive_no_tools, tasks]: pc is where its
\* run is (idle, chat: awaiting client.chat, tools: in the for loop over the
\* tool calls, done: the AgentResult is returned); by is who awaits the
\* result (tool: the task tool, mention: main_loop, direct: a caller of
\* run()); turn is the index of the for loop over range(max_turns); signal is
\* the cancellation asked for (none, flag: Agent.cancel() has set _cancelled,
\* check: the cancel_check callback of the runner returns true), cancelled_at
\* the number of messages the agent had then, and outcome what the
\* AgentResult says (success, cancelled)
IdleAgent ==
  [pc |-> "idle", by |-> "none", requested |-> "none", class |-> "none",
   allowed_tools |-> {}, messages |-> <<>>, calls |-> <<>>, idx |-> 0,
   turn |-> 0, files_modified |-> {}, consecutive_no_tools |-> 0, tasks |-> {},
   signal |-> "none", cancelled_at |-> 0, outcome |-> "none"]

\* the test at the top of the for loop: self.is_cancelled, and in
\* GeneralAgent and PluginAgent also self._cancel_check()
is_cancelled(a) ==
  \/ a.signal = "flag"
  \/ a.signal = "check" /\ a.class \in {"general", "plugin"}

\* Agent.run up to the first client.chat
StartAgent(by, requested, made) ==
  [IdleAgent EXCEPT !.pc = "chat", !.by = by, !.requested = requested,
                    !.class = made.class, !.allowed_tools = made.allowed_tools,
                    !.messages = <<SystemMessage, UserMessage("prompt")>>]

\* the end of an iteration of the for loop over range(max_turns): the next
\* client.chat, or the return after the last turn
NextTurn(a) ==
  IF a.turn + 1 < max_turns(a.class)
  THEN IF is_cancelled(a)
       THEN [a EXCEPT !.pc = "done", !.calls = <<>>, !.idx = 0,
                      !.outcome = "cancelled"]
       ELSE [a EXCEPT !.turn = @ + 1, !.pc = "chat", !.calls = <<>>, !.idx = 0]
  ELSE [a EXCEPT !.pc = "done", !.calls = <<>>, !.idx = 0, !.outcome = "success"]

\* break
Done(a) == [a EXCEPT !.pc = "done", !.calls = <<>>, !.idx = 0, !.outcome = "success"]

\* the task store holds a pending or in_progress task
HasPending(store) ==
  \E i \in DOMAIN store.tasks : store.tasks[i].status \in {"pending", "in_progress"}

\* the loops after a response without tool calls; w is the world and a the
\* agent with the response appended
NoToolCalls(a, w) ==
  CASE a.class \in {"explore", "plan"} -> Done(a)
    [] a.class = "general" ->
         IF a.files_modified # {} /\ ~validate_modified_files(w.files, a.files_modified)
         THEN NextTurn([a EXCEPT !.messages = add_user_message(@, "STOP")])
         ELSE Done(a)
    [] OTHER ->
         LET n == a.consecutive_no_tools + 1
             b == [a EXCEPT !.consecutive_no_tools = n]
         IN  IF /\ a.files_modified # {}
                /\ ~validate_modified_files(w.files, a.files_modified)
                /\ n < 5
             THEN NextTurn([b EXCEPT !.messages = add_user_message(@, "STOP")])
             ELSE IF /\ a.allowed_tools \cap {"task_list", "task_update"} # {}
                     /\ HasPending(w.store)
                     /\ n < 3
             THEN NextTurn([b EXCEPT !.messages = add_user_message(@, "pending tasks")])
             ELSE Done(b)

\* the allow-list check of ExploreAgent.run and PlanAgent.run, with r what
\* Registry.execute would return: [a, w, result, passed], passed saying
\* whether Registry.execute was called
Restricted(a, w, tool_call, r) ==
  IF tool_call.name \notin a.allowed_tools
  THEN [a |-> a, w |-> w, result |-> NotAllowed(tool_call.name), passed |-> FALSE]
  ELSE [a |-> a, w |-> r.w, result |-> r.result, passed |-> TRUE]

\* the tasks PlanAgent.run extracts from the content of a write_file call
Extracted(a, w, tool_call) ==
  IF a.class = "plan" /\ tool_call.name = "write_file"
  THEN extract_and_create_tasks(w.store, a.tasks,
                                Get(tool_call.arguments, "content", <<>>))
  ELSE [store |-> w.store, tasks |-> a.tasks]

WithTasks(a, w, tool_call, pt) ==
  Restricted([a EXCEPT !.tasks = pt.tasks], [w EXCEPT !.store = pt.store], tool_call,
             ToolRegistry_execute([w EXCEPT !.store = pt.store], tool_call.name,
                                  tool_call.arguments))

\* one iteration of the for loop over response.tool_calls of ExploreAgent.run
\* and PlanAgent.run
RestrictedToolCall(a, w, tool_call) ==
  WithTasks(a, w, tool_call, Extracted(a, w, tool_call))

\* GeneralAgent.run, PluginAgent.run: files_modified.add(file_path)
Tracked(a, tool_call) ==
  IF /\ tool_call.name \in {"edit_file", "write_file"}
     /\ Get(tool_call.arguments, "file_path", <<>>) # <<>>
  THEN [a EXCEPT !.files_modified = @ \cup {Get(tool_call.arguments, "file_path", <<>>)}]
  ELSE a

\* the intercept of task_update status=completed, with a the agent after the
\* tracking and r what Registry.execute would return
Hooked(a, w, tool_call, r) ==
  IF /\ tool_call.name = "task_update"
     /\ Get(tool_call.arguments, "status", None) = "completed"
     /\ a.files_modified = {}
  THEN [a |-> a, w |-> w, result |-> NoFilesModified, passed |-> FALSE]
  ELSE IF /\ tool_call.name = "task_update"
          /\ Get(tool_call.arguments, "status", None) = "completed"
          /\ ~validate_modified_files(w.files, a.files_modified)
  THEN [a |-> a, w |-> w, result |-> HasSyntaxErrors, passed |-> FALSE]
  ELSE [a |-> a, w |-> r.w, result |-> r.result, passed |-> TRUE]

\* one iteration of the for loop over response.tool_calls of GeneralAgent.run
\* and PluginAgent.run
HookedToolCall(a, w, tool_call) ==
  Hooked(Tracked(a, tool_call), w, tool_call,
         ToolRegistry_execute(w, tool_call.name, tool_call.arguments))

\* the tool call of the class of the agent
AgentToolCall(a, w, tool_call) ==
  IF a.class \in {"explore", "plan"} THEN RestrictedToolCall(a, w, tool_call)
  ELSE HookedToolCall(a, w, tool_call)


(***************************************************************************)
(* client.py: chat_stream                                                  *)
(*                                                                         *)
(* One attempt reads the lines of one HTTP response.  A line is given as   *)
(* the delta it decodes to: [kind, content, index, id, name, arguments],   *)
(* kind "content" for a delta with a content, "tool_call" for a delta with *)
(* one tool-call fragment, "skip" for a line that is passed over (it does  *)
(* not start with "data: ", it is no JSON, or its delta is empty).         *)
(* Contents and argument strings are sequences of characters.  The message *)
(* returned is [role, content, content_none, tool_calls, tool_calls_none]: *)
(* content_none and tool_calls_none say that the field is None.            *)
(***************************************************************************)
\* max_retries of chat_stream when the caller gives none
DefaultMaxRetries == 2

InterruptedSuffix == <<"\n", "\n", "[", "R", "e", "s", "p", "o", "n", "s", "e", " ", "i", "n", "t", "e", "r", "r", "u", "p", "t", "e", "d", " ", "-", " ", "c", "o", "n", "n", "e", "c", "t", "i", "o", "n", " ", "e", "r", "r", "o", "r", "]">>

\* the exceptions the retry loop catches
ConnectionErrors == {"RemoteProtocolError", "ReadError", "ConnectError"}

\* exceptions of the transport the retry loop lets through
OtherErrors == {"HTTPStatusError", "ReadTimeout"}

ContentLine(content) ==
  [kind |-> "content", content |-> content, index |-> 0, id |-> "",
   name |-> "", arguments |-> <<>>]

ToolCallLine(index, id, name, arguments) ==
  [kind |-> "tool_call", content |-> <<>>, index |-> index, id |-> id,
   name |-> name, arguments |-> arguments]

SkippedLine == [kind |-> "skip", content |-> <<>>, index |-> 0, id |-> "",
                name |-> "", arguments |-> <<>>]

\* html.unescape, for the entities &lt; &gt; &amp;
RECURSIVE Unescape(_)
Unescape(s) ==
  IF s = <<>> THEN <<>>
  ELSE IF Len(s) >= 4 /\ SubSeq(s, 1, 4) = <<"&", "l", "t", ";">>
  THEN <<"<">> \o Unescape(SubSeq(s, 5, Len(s)))
  ELSE IF Len(s) >= 4 /\ SubSeq(s, 1, 4) = <<"&", "g", "t", ";">>
  THEN <<">">> \o Unescape(SubSeq(s, 5, Len(s)))
  ELSE IF Len(s) >= 5 /\ SubSeq(s, 1, 5) = <<"&", "a", "m", "p", ";">>
  THEN <<"&">> \o Unescape(SubSeq(s, 6, Len(s)))
  ELSE <<s[1]>> \o Unescape(Tail(s))

\* the characters of s from position a to position b hold no quote
NoQuote(s, a, b) == \A j \in a..b : s[j] # "\""

\* s is {"key":"value"} with the key ending at position q - 1
IsPair(s, q) ==
  /\ q >= 3
  /\ q + 4 <= Len(s)
  /\ s[1] = "{" /\ s[2] = "\"" /\ s[q] = "\"" /\ s[q + 1] = ":"
  /\ s[q + 2] = "\"" /\ s[Len(s) - 1] = "\"" /\ s[Len(s)] = "}"
  /\ NoQuote(s, 3, q - 1)
  /\ NoQuote(s, q + 3, Len(s) - 2)

\* json.loads of an argument string, for the objects {} and {"key":"value"}:
\* ok is false where it raises JSONDecodeError, a map is the sequence of its
\* [key, value] items
json_loads(s) ==
  IF s = <<"{", "}">> THEN [ok |-> TRUE, value |-> <<>>]
  ELSE IF \E q \in 1..Len(s) : IsPair(s, q)
  THEN [ok |-> TRUE,
        value |-> <<[key |-> SubSeq(s, 3, (CHOOSE q \in 1..Len(s) : IsPair(s, q)) - 1),
                     value |-> SubSeq(s, (CHOOSE q \in 1..Len(s) : IsPair(s, q)) + 3,
                                      Len(s) - 2)]>>]
  ELSE [ok |-> FALSE, value |-> <<>>]

\* _unescape_html_in_dict of a map of strings
unescape_html_in_dict(obj) ==
  [n \in DOMAIN obj |-> [key |-> obj[n].key, value |-> Unescape(obj[n].value)]]

\* the entry of tool_calls_data a fragment meets: the one of its index, or a
\* new one
EntryFor(tool_calls_data, tc) ==
  IF tc.index \in DOMAIN tool_calls_data THEN tool_calls_data[tc.index]
  ELSE [id |-> tc.id, name |-> "", arguments |-> <<>>]

\* an id or a name of a fragment that is not empty replaces the one held
take_latest(held, given) == IF given # "" THEN given ELSE held

\* "Handle tool calls": one fragment goes into tool_calls_data
merge_fragment(tool_calls_data, tc) ==
  [i \in DOMAIN tool_calls_data \cup {tc.index} |->
     IF i = tc.index
     THEN [id |-> take_latest(EntryFor(tool_calls_data, tc).id, tc.id),
           name |-> take_latest(EntryFor(tool_calls_data, tc).name, tc.name),
           arguments |-> EntryFor(tool_calls_data, tc).arguments \o tc.arguments]
     ELSE tool_calls_data[i]]

\* the arguments of a ToolCall, from the argument string gathered
parse_arguments(arguments) ==
  IF arguments = <<>> THEN <<>>
  ELSE IF json_loads(arguments).ok
  THEN unescape_html_in_dict(json_loads(arguments).value)
  ELSE <<>>

\* sorted(keys)
RECURSIVE SortedKeys(_)
SortedKeys(S) ==
  IF S = {} THEN <<>>
  ELSE <<CHOOSE m \in S : \A o \in S : m <= o>>
       \o SortedKeys(S \ {CHOOSE m \in S : \A o \in S : m <= o})

\* "Build tool calls"
build_tool_calls(tool_calls_data) ==
  [n \in 1..Cardinality(DOMAIN tool_calls_data) |->
     [id |-> tool_calls_data[SortedKeys(DOMAIN tool_calls_data)[n]].id,
      name |-> tool_calls_data[SortedKeys(DOMAIN tool_calls_data)[n]].name,
      arguments |->
        parse_arguments(tool_calls_data[SortedKeys(DOMAIN tool_calls_data)[n]].arguments)]]

StreamedMessage(content, content_none, tool_calls, tool_calls_none) ==
  [role |-> "assistant", content |-> content, content_none |-> content_none,
   tool_calls |-> tool_calls, tool_calls_none |-> tool_calls_none]

NoMessage == StreamedMessage(<<>>, TRUE, <<>>, TRUE)

\* the Message of an attempt that has read its response to the end
CompletedMessage(full_content, tool_calls_data) ==
  StreamedMessage(full_content, full_content = <<>>,
                  build_tool_calls(tool_calls_data), DOMAIN tool_calls_data = {})

\* the Message of the last attempt, when it has failed with some content
InterruptedMessage(full_content) ==
  StreamedMessage(full_content \o InterruptedSuffix, FALSE, <<>>, TRUE)

\* full_content at the start of an attempt that takes over what came before
carry_content(full_content) == full_content

\* full_content at the start of an attempt
fresh_content(full_content) == <<>>

\* the seconds slept by a loop that does not wait
no_backoff(attempt) == 0

\* the seconds slept before the attempt after this one
backoff(attempt) == 1 * (attempt + 1)

\* the contents and the tool-call fragments the transport may deliver
ContentHel == <<"H", "e", "l">>
ContentLo == <<"l", "o">>
ArgsOpen == <<"{", "\"", "c", "\"", ":">>
ArgsClose == <<"\"", "x", "\"", "}">>
ArgsCloseEntity == <<"\"", "&", "l", "t", ";", "\"", "}">>

Lines ==
  {ContentLine(ContentHel), ContentLine(ContentLo), ContentLine(<<>>), SkippedLine,
   ToolCallLine(0, "call_a", "bash", ArgsOpen),
   ToolCallLine(0, "", "", ArgsClose),
   ToolCallLine(0, "", "", ArgsCloseEntity),
   ToolCallLine(0, "call_b", "glob", <<>>),
   ToolCallLine(1, "call_c", "grep", <<>>)}

\* the lines one call of chat_stream reads at most, over all its attempts
MaxLines == 3

\* chat_stream before it is called.  pc, max_retries, attempt, full_content,
\* tool_calls_data, message and error are the call's own; the others record
\* what the transport and the callbacks saw: read the lines of this attempt,
\* total the lines of the call, arrived the content deltas of this attempt,
\* fragments its tool-call fragments, delivered what on_content was given,
\* slept the sleeps, streamed the content of each attempt that has ended,
\* ends how each of them ended
IdleStream ==
  [pc |-> "idle", max_retries |-> DefaultMaxRetries, attempt |-> 0,
   full_content |-> <<>>, tool_calls_data |-> <<>>, message |-> NoMessage,
   error |-> "none", read |-> 0, total |-> 0, arrived |-> <<>>,
   fragments |-> <<>>, delivered |-> <<>>, slept |-> <<>>, streamed |-> <<>>,
   ends |-> <<>>]

(***************************************************************************)
(* tools/plan_mode.py                                                      *)
(*                                                                         *)
(* The PlanModeState is [active, plan_file, plan_content, created_tasks];  *)
(* the tools work on ps = [plan, files, store] and give back ps and their  *)
(* result.                                                                 *)
(***************************************************************************)
\* the plan file PlanModeState.enter names: .grok/plans/plan-<hex>.md
PlanFile == <<"/", "t", "m", "p", "/", ".", "g", "r", "o", "k", "/", "p", "l", "a", "n", "s", "/", "p", "l", "a", "n", ".", "m", "d">>

\* PlanModeState()
NoPlan == [active |-> FALSE, plan_file |-> <<>>, plan_content |-> <<>>,
           created_tasks |-> <<>>]

\* PlanModeState.enter
PlanModeState_enter(plan) ==
  [active |-> TRUE, plan_file |-> PlanFile, plan_content |-> <<>>,
   created_tasks |-> <<>>]

\* PlanModeState.exit
PlanModeState_exit(plan) == [plan EXCEPT !.active = FALSE, !.created_tasks = <<>>]

\* a state that takes every subject as new
never_created(created_tasks, subject) == FALSE

\* task_subject in self.created_tasks
already_created(created_tasks, subject) ==
  \E n \in DOMAIN created_tasks : created_tasks[n] = subject

\* the for loop of PlanModeState._extract_and_create_tasks
RECURSIVE PlanCreateTasks(_, _)
PlanCreateTasks(ps, subjects) ==
  IF subjects = <<>> THEN ps
  ELSE IF Head(subjects) # <<>>
          /\ ~already_created(ps.plan.created_tasks, Head(subjects))
  THEN PlanCreateTasks(
         [ps EXCEPT !.store = TaskStore_create(ps.store, Head(subjects)),
                    !.plan.created_tasks = Append(ps.plan.created_tasks, Head(subjects))],
         Tail(subjects))
  ELSE PlanCreateTasks(ps, Tail(subjects))

\* open(path, "w").write(content)
WriteFile(files, path, content) ==
  [p \in DOMAIN files \cup {path} |-> IF p = path THEN content ELSE files[p]]

\* PlanModeState.set_plan
PlanModeState_set_plan(ps, content) ==
  PlanCreateTasks(
    [ps EXCEPT !.plan.plan_content = content,
               !.files = IF ps.plan.plan_file # <<>>
                         THEN WriteFile(ps.files, ps.plan.plan_file, content)
                         ELSE ps.files],
    FindTasks(content, 1))

\* r"- \[ \] .+"
task_pattern == <<Lit(Checkbox), Plus(AnyChar)>>

\* a check that takes every content
any_content(content) == TRUE

\* re.search(task_pattern, content)
has_task_line(content) == ReSearch(task_pattern, content)

\* an exit that asks for no created task
tasks_not_needed(created_tasks) == TRUE

\* state.created_tasks is not empty
has_created_tasks(created_tasks) == created_tasks # <<>>

\* EnterPlanModeTool.execute
EnterPlanModeTool_execute(ps) ==
  [ps |-> [ps EXCEPT !.plan = PlanModeState_enter(ps.plan)],
   result |-> Result("Entered", "plan mode", <<>>)]

\* WritePlanTool.execute
WritePlanTool_execute(ps, content) ==
  IF ~ps.plan.active
  THEN [ps |-> ps, result |-> Result("Error:", "Not in plan mode", <<>>)]
  ELSE IF ~has_task_line(content)
  THEN [ps |-> ps, result |-> Result("Error:", "Plan must include tasks", <<>>)]
  ELSE [ps |-> PlanModeState_set_plan(ps, content),
        result |-> Result("Plan saved", "Created tasks", <<>>)]

\* ExitPlanModeTool.execute
ExitPlanModeTool_execute(ps) ==
  IF ~ps.plan.active
  THEN [ps |-> ps, result |-> Result("Error:", "Not in plan mode", <<>>)]
  ELSE IF ps.plan.plan_content = <<>>
  THEN [ps |-> ps, result |-> Result("Error:", "No plan was written", <<>>)]
  ELSE IF ~has_created_tasks(ps.plan.created_tasks)
  THEN [ps |-> ps, result |-> Result("Error:", "Plan has no tasks", <<>>)]
  ELSE [ps |-> [ps EXCEPT !.plan = PlanModeState_exit(ps.plan)],
        result |-> Result("Exiting", "plan mode", ps.plan.plan_content)]

\* the content has a line part "- [ ] " that some character follows
CheckboxLine(content) ==
  \E j \in 1..Len(content) :
    /\ j + 6 <= Len(content)
    /\ SubSeq(content, j, j + 5) = Checkbox
    /\ content[j + 6] # "\n"

\* the plans write_plan is given
PlanA == <<"-", " ", "[", " ", "]", " ", "a">>
PlanAB == <<"-", " ", "[", " ", "]", " ", "a", "\n", "-", " ", "[", " ", "]", " ", "b">>
PlanBlank == <<"-", " ", "[", " ", "]", " ", " ">>
Plans == {PlanA, PlanAB, PlanBlank, TextHi}

(***************************************************************************)
(* agents/runner.py, tools/agents.py: the background agents                *)
(*                                                                         *)
(* The AgentRunner is [running, completed, runs, wait]: running the ids of *)
(* _running_agents, completed the AgentResults of _completed_results by    *)
(* id, runs the asyncio tasks of run_and_store by id as [class, state,     *)
(* event], state one of running, done, raised and cancelled.  wait is the  *)
(* call of task_output that awaits a task: [pc, id, timeout, elapsed].     *)
(* current_agent is _current_agent, 0 for None, and run_agent_calls the    *)
(* calls of run_agent so far, in the order they began, as [state, parent,  *)
(* cancelled]: state running or ended, parent the call whose agent awaits  *)
(* this one through the task tool (0: none), cancelled the flag of the     *)
(* agent the call created.                                                 *)
(***************************************************************************)
NoWait == [pc |-> "idle", id |-> 0, timeout |-> 0, elapsed |-> 0]

\* AgentRunner.__init__
NoRunner == [running |-> {}, completed |-> <<>>, runs |-> <<>>, wait |-> NoWait,
             current_agent |-> 0, run_agent_calls |-> <<>>]

\* what ends a run: the loop returns, or client.chat raises an exception
RunEvents == {"returns", "chat_raises"}

\* the run loop of the class has its client.chat inside try ... except Exception
catches_exceptions(class) == class = "plugin"

\* Agent.run(prompt, context) to its end: the AgentResult it returns, or the
\* exception that leaves it
agent_run(id, class, event) ==
  IF event = "returns"
  THEN [raised |-> FALSE, success |-> TRUE, output |-> Str(id), error |-> None]
  ELSE IF catches_exceptions(class)
  THEN [raised |-> FALSE, success |-> FALSE, output |-> Str(id), error |-> "str(e)"]
  ELSE [raised |-> TRUE, success |-> FALSE, output |-> <<>>, error |-> "str(e)"]

\* AgentRunner.run_agent up to its await of agent.run; parent is the call
\* whose agent asked for this one through the task tool
run_agent_begin(runner, parent) ==
  [runner EXCEPT
     !.run_agent_calls = Append(@, [state |-> "running", parent |-> parent,
                                    cancelled |-> FALSE]),
     !.current_agent = Len(runner.run_agent_calls) + 1]

\* AgentRunner.run_agent from the end of agent.run: the finally block
run_agent_end(runner, id) ==
  [runner EXCEPT !.run_agent_calls[id].state = "ended", !.current_agent = 0]

\* AgentRunner.cancel_current
cancel_current(runner) ==
  IF runner.current_agent # 0
  THEN [runner EXCEPT !.run_agent_calls[runner.current_agent].cancelled = TRUE]
  ELSE runner

\* AgentRunner.run_agent_background: the new agent has the id given
run_agent_background(runner, id, class) ==
  [runner EXCEPT
     !.running = @ \cup {id},
     !.runs = [i \in DOMAIN @ \cup {id} |->
                 IF i = id THEN [class |-> class, state |-> "running", event |-> "none"]
                 ELSE @[i]]]

\* a map with one more item
Put(map, key, value) ==
  [k \in DOMAIN map \cup {key} |-> IF k = key THEN value ELSE map[k]]

\* run_and_store from the return of agent.run on
run_and_store(runner, id, event) ==
  IF agent_run(id, runner.runs[id].class, event).raised
  THEN [runner EXCEPT !.runs[id].state = "raised", !.runs[id].event = event]
  ELSE [runner EXCEPT
          !.completed = Put(@, id, agent_run(id, runner.runs[id].class, event)),
          !.running = @ \ {id},
          !.runs[id].state = "done", !.runs[id].event = event]

\* task.cancel()
task_cancel(run) ==
  IF run.state = "running" THEN [run EXCEPT !.state = "cancelled"] ELSE run

\* AgentRunner.cancel_agent
cancel_agent(runner, id) ==
  IF id \notin runner.running THEN runner
  ELSE [runner EXCEPT !.running = @ \ {id}, !.runs[id] = task_cancel(@)]

\* `if timeout:` in wait_for_agent: the wait is under asyncio.wait_for
has_timer(timeout) == timeout # 0

\* TaskOutputTool.execute up to its await: [runner, returned, result]
TaskOutputTool_execute(runner, id, wait, timeout) ==
  IF id \in DOMAIN runner.completed
  THEN [runner |-> runner, returned |-> TRUE,
        result |-> Result("Agent completed.", "output", runner.completed[id].output)]
  ELSE IF id \notin runner.running
  THEN [runner |-> runner, returned |-> TRUE,
        result |-> Result("Error:", "No agent found with ID", Str(id))]
  ELSE IF ~wait
  THEN [runner |-> runner, returned |-> TRUE,
        result |-> Result("Agent", "is still running", Str(id))]
  ELSE [runner |-> [runner EXCEPT !.wait = [pc |-> "waiting", id |-> id,
                                            timeout |-> timeout, elapsed |-> 0]],
        returned |-> FALSE, result |-> Result("", "", <<>>)]

\* the await of wait_for_agent ends because the task has ended
AwaitEnds(runner) ==
  CASE runner.runs[runner.wait.id].state = "done" ->
         Result("Agent completed.", "output", runner.completed[runner.wait.id].output)
    [] runner.runs[runner.wait.id].state = "raised" ->
         Result("Error executing", "task_output", <<>>)
    [] OTHER -> Result("CancelledError", "", <<>>)

\* asyncio.wait_for runs out: it cancels the task, wait_for_agent returns None
AwaitTimesOut(runner) ==
  [runner EXCEPT !.runs[runner.wait.id] = task_cancel(@), !.wait = NoWait]

(***************************************************************************)
(* State                                                                   *)
(***************************************************************************)
VARIABLES
  files,                \* the file system: absolute path -> content
  read_files,           \* file_ops._read_files
  mode,                 \* PermissionManager.mode
  session_approvals,    \* PermissionManager.session_approvals
  persistent_approvals, \* PermissionManager.persistent_approvals
  spawned,              \* the commands a child process was created for
  store,                \* the TaskStore
  last,                 \* the latest tool call: what was asked, what came back
  last_ok,              \* per path, the latest successful file operation on it
  conv,                 \* the foreground Conversation: its messages
  pc,                   \* where the foreground is (input: get_input_async)
  calls,                \* the tool calls of the response being worked through
  idx,                  \* the index of the next of them
  interrupted,          \* layout._interrupted
  busy,                 \* layout._is_busy
  queue,                \* layout._queued_messages
  nested,               \* who awaits the running turn: no (main_loop), turn
                        \* (the queue drain of a turn), mention (the queue
                        \* drain after an @agent run)
  chats,                \* the chat requests the foreground has made
  inputs,               \* the messages the user has entered
  cut,                  \* an interrupt has ended a turn between two tool calls
  agent,                \* the sub-agent that runs
  stream,               \* the call of GrokClient.chat_stream
  plan,                 \* the PlanModeState
  runner,               \* the AgentRunner with its background agents
  session               \* the plan session: base the task counter at its
                        \* enter_plan_mode, written the subjects written
                        \* since, calls the plan tool calls made so far

worldVars == <<files, read_files, mode, session_approvals, persistent_approvals,
               spawned, store>>

loopVars == <<conv, pc, calls, idx, interrupted, busy, queue, nested, chats,
              inputs, cut, agent>>

vars == <<files, read_files, mode, session_approvals, persistent_approvals,
          spawned, store, last, last_ok, conv, pc, calls, idx, interrupted,
          busy, queue, nested, chats, inputs, cut, agent, stream, plan, session, runner>>

PM == [mode |-> mode, session_approvals |-> session_approvals,
       persistent_approvals |-> persistent_approvals]

World == [files |-> files, read_files |-> read_files, pm |-> PM,
          spawned |-> spawned, store |-> store]

SetWorld(w) ==
  /\ files' = w.files
  /\ read_files' = w.read_files
  /\ mode' = w.pm.mode
  /\ session_approvals' = w.pm.session_approvals
  /\ persistent_approvals' = w.pm.persistent_approvals
  /\ spawned' = w.spawned
  /\ store' = w.store

NoCall == [op |-> "none", args |-> <<>>, result |-> Result("", "", <<>>),
           existed |-> FALSE, was_read |-> FALSE, prev_ok |-> "none",
           unchanged |-> TRUE, mode |-> "none", approved |-> FALSE,
           allowed |-> FALSE, danger_reason |-> None, spawn |-> FALSE,
           who |-> "none", passed |-> FALSE, modified |-> {}, allow_list |-> {},
           cancelled |-> FALSE, prev_op |-> "none", plan_before |-> NoPlan,
           runner_before |-> NoRunner,
           syntax_ok |-> TRUE, store_unchanged |-> TRUE]

EmptyStore == [tasks |-> <<>>, counter |-> 0, issued |-> <<>>]

NoSession == [base |-> 0, written |-> {}, calls |-> 0]

CanonicalPaths == {ResolvePath(p) : p \in FilePaths \cup GatedPaths \cup {PathPy}}


(***************************************************************************)
(* Direct calls of the tools through the registry                          *)
(***************************************************************************)
\* the result counts as a success of the file operation
FileOpSucceeded(name, result) ==
  IF name = "read_file" THEN ~IsErrorResult(result)
  ELSE result.prefix = "Successfully"

\* ToolRegistry.execute(name, args), with what the call met and returned
\* recorded in last
Call(name, args) ==
  \E r \in {ToolRegistry_execute(World, name, args)},
     chk \in {check_permission(PM, name, args)},
     path \in {ResolvePath(Get(args, "file_path", <<>>))} :
    /\ SetWorld(r.w)
    /\ last' = [NoCall EXCEPT
                  !.op = name, !.args = args, !.result = r.result,
                  !.existed = path \in DOMAIN files,
                  !.was_read = path \in read_files,
                  !.prev_ok = IF path \in DOMAIN last_ok THEN last_ok[path] ELSE "none",
                  !.unchanged = r.w.files = files /\ r.w.read_files = read_files,
                  !.mode = mode,
                  !.approved = is_approved(PM, name, chk.approval_key),
                  !.allowed = chk.allowed,
                  !.danger_reason = chk.danger_reason,
                  !.spawn = r.spawn,
                  !.who = "direct", !.passed = TRUE,
                  !.store_unchanged = r.w.store = store]
    /\ last_ok' = IF /\ name \in {"read_file", "write_file", "edit_file"}
                     /\ FileOpSucceeded(name, r.result)
                  THEN [last_ok EXCEPT ![path] = name]
                  ELSE last_ok
    /\ UNCHANGED <<loopVars, stream, plan, session, runner>>

ReadArgs(p, win) ==
  IF win = <<0, 0>> THEN [file_path |-> p]
  ELSE [file_path |-> p, offset |-> win[1], limit |-> win[2]]

FileRead ==
  \E p \in FilePaths, win \in ReadWindows : Call("read_file", ReadArgs(p, win))

FileWrite ==
  \E p \in FilePaths, c \in Contents :
    Call("write_file", [file_path |-> p, content |-> c])

FileEdit ==
  \E p \in FilePaths, all \in BOOLEAN :
    Call("edit_file", [file_path |-> p, old_string |-> TextH,
                       new_string |-> TextI, replace_all |-> all])

\* the foreground after construction: main_loop awaits the first input
InitLoop ==
  /\ conv = init_system_prompt(<<>>, EmptyStore)
  /\ pc = "input"
  /\ calls = <<>>
  /\ idx = 0
  /\ interrupted = FALSE
  /\ busy = FALSE
  /\ queue = <<>>
  /\ nested = "no"
  /\ chats = 0
  /\ inputs = 0
  /\ cut = FALSE
  /\ agent = IdleAgent

InitWorld ==
  /\ read_files = {}
  /\ mode = "approve"
  /\ session_approvals = {}
  /\ persistent_approvals = {}
  /\ spawned = {}
  /\ store = EmptyStore
  /\ last = NoCall
  /\ last_ok = [p \in CanonicalPaths |-> "none"]
  /\ stream = IdleStream
  /\ plan = NoPlan
  /\ session = NoSession
  /\ runner = NoRunner
  /\ InitLoop

\* the session starts with no file, or with a file nobody has read
InitFiles ==
  /\ files \in {<<>>, [p \in {PathX} |-> TextHi]}
  /\ InitWorld

NextFiles == FileRead \/ FileWrite \/ FileEdit

SpecFiles == InitFiles /\ [][NextFiles]_vars


(***************************************************************************)
(* The permission manager and the gated tools                              *)
(***************************************************************************)
\* the calls whose permission is asked for
GatedCalls ==
  {<<"bash", [command |-> c]>> : c \in Commands}
    \cup {<<"write_file", [file_path |-> p, content |-> TextHi]>> : p \in GatedPaths}

\* the calls check_permission is asked about
CheckedCalls ==
  GatedCalls \cup {<<"edit_file", [file_path |-> PathEnv, old_string |-> TextH,
                                   new_string |-> TextI]>>,
                   <<"edit_file", [file_path |-> PathXRel, old_string |-> TextH,
                                   new_string |-> TextI]>>,
                   <<"read_file", [file_path |-> PathEnv]>>}

\* PermissionManager.set_mode
PermSetMode ==
  \E m \in ApprovalModes :
    /\ mode' = m
    /\ last' = [NoCall EXCEPT !.op = "set_mode", !.mode = m]
    /\ UNCHANGED <<files, read_files, session_approvals, persistent_approvals,
                   spawned, store, last_ok, stream, plan, session, runner, loopVars>>

\* PermissionManager.check_permission(tool, args)
PermCheck ==
  \E call \in CheckedCalls :
    \E chk \in {check_permission(PM, call[1], call[2])} :
        /\ last' = [NoCall EXCEPT !.op = "check_permission",
                                   !.args = [tool |-> call[1], args |-> call[2]],
                                   !.mode = mode,
                                   !.approved = is_approved(PM, call[1], chk.approval_key),
                                   !.allowed = chk.allowed,
                                   !.danger_reason = chk.danger_reason]
        /\ UNCHANGED <<worldVars, last_ok, stream, plan, session, runner, loopVars>>

\* PermissionManager.approve(tool, key, persistent): the answer `yes`
\* (session) or `always` (persistent) to a call that was not allowed
PermApproveOf(asked) ==
  \E call \in asked, persistent \in BOOLEAN :
    \E chk \in {check_permission(PM, call[1], call[2])} :
      \E pm2 \in {approve(PM, call[1], chk.approval_key, persistent)} :
        /\ ~chk.allowed
        /\ session_approvals' = pm2.session_approvals
        /\ persistent_approvals' = pm2.persistent_approvals
        /\ last' = [NoCall EXCEPT !.op = "approve", !.mode = mode]
        /\ UNCHANGED <<files, read_files, mode, spawned, store, last_ok, stream, plan, session, runner, loopVars>>

PermApprove == PermApproveOf(GatedCalls)

\* Registry.execute("bash", ...)
PermBash ==
  \E c \in Commands : Call("bash", [command |-> c])

\* the approve_operation calls made: a pattern, every pattern of a tool,
\* both, and neither
ApproveOperations ==
  {[tool |-> "bash", pattern |-> <<"r", "m">>],
   [tool |-> "bash", approve_all |-> TRUE],
   [tool |-> "bash", pattern |-> <<"r", "m">>, approve_all |-> TRUE],
   [tool |-> "bash"],
   [tool |-> "edit_file", pattern |-> PathEnv],
   [tool |-> "edit_file", approve_all |-> TRUE]}

\* Registry.execute("approve_operation", ...)
PermApproveOperation ==
  \E args \in ApproveOperations : Call("approve_operation", args)

\* Registry.execute("write_file", ...)
PermWrite ==
  \E p \in GatedPaths : Call("write_file", [file_path |-> p, content |-> TextHi])

\* the mode and the persistent approvals are what .grok/permissions.json holds
InitPerm ==
  /\ files = <<>>
  /\ read_files = {}
  /\ mode \in ApprovalModes
  /\ session_approvals = {}
  /\ persistent_approvals = {}
  /\ spawned = {}
  /\ store = EmptyStore
  /\ last = NoCall
  /\ last_ok = [p \in CanonicalPaths |-> "none"]
  /\ stream = IdleStream
  /\ plan = NoPlan
  /\ session = NoSession
  /\ runner = NoRunner
  /\ InitLoop

NextPerm == PermSetMode \/ PermCheck \/ PermApprove \/ PermBash \/ PermWrite

SpecPerm == InitPerm /\ [][NextPerm]_vars

(***************************************************************************)
(* The approvals: the modes, the checks, the answers yes and always, and   *)
(* the approve_operation tool                                              *)
(***************************************************************************)
NextApprove == PermSetMode \/ PermCheck \/ PermApprove \/ PermApproveOperation

SpecApprove == InitPerm /\ [][NextApprove]_vars

(***************************************************************************)
(* bash in the foreground: the modes, the answers yes and always, and the  *)
(* bash calls with what their child processes do                           *)
(***************************************************************************)
\* Registry.execute("bash", ...)
BashRun ==
  \E c \in RunCommands : Call("bash", [command |-> c])

NextBash == PermSetMode \/ PermApprove \/ BashRun

SpecBash == InitPerm /\ [][NextBash]_vars


(***************************************************************************)
(* main.py: the foreground conversation, and the sub-agents it runs        *)
(*                                                                         *)
(* An action is the code between two awaits.  The user's keys (an          *)
(* interrupt, a message entered while busy) are handled while the          *)
(* foreground awaits a chat response, a sleep or a sub-agent's chat        *)
(* response.                                                               *)
(***************************************************************************)
\* the messages the user enters in a session
MaxInputs == 2

\* the chat requests of the foreground, and the turns of an agent, that the
\* model answers with tool calls
MaxToolChats == 2

MaxAgentToolTurns == 2

\* the queue the model lets build up
MaxQueue == 1

\* the names agents are asked for
SpawnNames == {"explore", "plan", "general", "reviewer"}

ReadCall == [name |-> "read_file", arguments |-> [file_path |-> PathX]]

TaskCall(t) == [name |-> "task", arguments |-> [agent_type |-> t, prompt |-> "prompt"]]

WritePyCall(c) == [name |-> "write_file", arguments |-> [file_path |-> PathPy, content |-> c]]

TaskCreateCall == [name |-> "task_create", arguments |-> [subject |-> TextHi]]

TaskDoneCall == [name |-> "task_update", arguments |-> [task_id |-> 1, status |-> "completed"]]

\* the tool calls of a response of the foreground's model
Responses ==
  {<<>>, <<ReadCall>>, <<TaskCall("explore")>>}
    \cup {<<TaskCall(t), ReadCall>> : t \in SpawnNames}

\* the tool calls of a response of an agent's model (an agent is not
\* offered the task tool here)
AgentResponses ==
  {<<>>, <<ReadCall>>, <<TaskCreateCall, TaskDoneCall>>,
   <<WritePyCall(TextPyOk), TaskDoneCall>>, <<WritePyCall(TextDefBad), TaskDoneCall>>}

\* what a tool call met and returned, for last
Observed(who, allow_list, tool_call, w, result, passed, modified) ==
  [NoCall EXCEPT !.op = tool_call.name, !.args = tool_call.arguments,
                 !.result = result, !.who = who, !.passed = passed,
                 !.modified = modified, !.mode = mode, !.allow_list = allow_list,
                 !.syntax_ok = \A f \in modified : check_file_syntax(files, f),
                 !.unchanged = w.files = files /\ w.read_files = read_files,
                 !.store_unchanged = w.store = store]

\* the top of the while loop of run_conversation_turn, with c the
\* conversation: the interrupt check, then the chat request
LoopTop(c) ==
  /\ conv' = c
  /\ calls' = <<>>
  /\ idx' = 0
  /\ IF interrupted
     THEN /\ interrupted' = FALSE
          /\ pc' = "sleep_break"
          /\ chats' = chats
     ELSE /\ interrupted' = FALSE
          /\ pc' = "chat"
          /\ chats' = chats + 1

\* the queue drain of run_conversation_turn and of main_loop's @agent branch,
\* with c the conversation and i the flag: the next queued message starts a
\* turn of its own, and with none left control is back at get_input_async
Drain(c, i) ==
  /\ calls' = <<>>
  /\ idx' = 0
  /\ IF queue # <<>>
     THEN /\ conv' = refresh_task_context(add_user_message(c, Head(queue)), store)
          /\ queue' = Tail(queue)
          /\ busy' = TRUE
          /\ nested' = IF nested = "no" THEN "turn" ELSE nested
          /\ IF i
             THEN interrupted' = FALSE /\ pc' = "sleep_break" /\ chats' = chats
             ELSE interrupted' = FALSE /\ pc' = "chat" /\ chats' = chats + 1
     ELSE /\ conv' = c
          /\ queue' = queue
          /\ busy' = FALSE
          /\ nested' = "no"
          /\ interrupted' = FALSE
          /\ pc' = "input"
          /\ chats' = chats

\* the end of run_conversation_turn after a break: set_busy(False),
\* reset_input_state, the queue drain
FinishTurn(c) == Drain(c, FALSE)

\* after the observation of calls[idx] is appended: the next tool call, or
\* the top of the while loop
AfterTool(c) ==
  IF idx < Len(calls)
  THEN /\ conv' = c
       /\ idx' = idx + 1
       /\ UNCHANGED <<pc, calls, interrupted, chats>>
  ELSE LoopTop(c)

\* main_loop: a message is entered at the prompt; run_conversation_turn up to
\* its chat request
Submit ==
  /\ pc = "input"
  /\ ~busy
  /\ inputs < MaxInputs
  /\ inputs' = inputs + 1
  /\ conv' = refresh_task_context(add_user_message(conv, "message"), store)
  /\ busy' = TRUE
  /\ pc' = "chat"
  /\ chats' = chats + 1
  /\ UNCHANGED <<worldVars, last, last_ok, stream, plan, session, runner, calls, idx, interrupted, queue,
                 nested, cut, agent>>

\* main_loop: a message with @agent:<name> is entered; run_agent up to the
\* agent's first chat request
Mention ==
  \E name \in SpawnNames :
    /\ pc = "input"
    /\ ~busy
    /\ inputs < MaxInputs
    /\ inputs' = inputs + 1
    /\ busy' = TRUE
    /\ agent' = StartAgent("mention", name, create_agent(name))
    /\ pc' = "agent"
    /\ UNCHANGED <<worldVars, last, last_ok, stream, plan, session, runner, conv, calls, idx, interrupted,
                   queue, nested, chats, cut>>

\* GeneralAgent(client, registry).run(prompt): the runner never makes the
\* class, a caller of the package does
RunGeneral ==
  /\ pc = "input"
  /\ inputs < MaxInputs
  /\ inputs' = inputs + 1
  /\ agent' = StartAgent("direct", "general", GeneralAgent)
  /\ pc' = "agent"
  /\ UNCHANGED <<worldVars, last, last_ok, stream, plan, session, runner, conv, calls, idx, interrupted,
                 busy, queue, nested, chats, cut>>

\* handle_ctrl_c, handle_escape (the second of two): the interrupt key
Interrupt ==
  /\ \/ pc \in {"chat", "sleep_break", "sleep_return"}
     \/ pc = "agent" /\ agent.pc = "chat" /\ agent.by # "direct"
  /\ ~interrupted
  /\ interrupted' = TRUE
  /\ UNCHANGED <<worldVars, last, last_ok, stream, plan, session, runner, conv, pc, calls, idx, busy, queue,
                 nested, chats, inputs, cut, agent>>

\* _accept_input while busy: the message is queued
QueueInput ==
  /\ \/ pc \in {"chat", "sleep_break", "sleep_return", "input"}
     \/ pc = "agent" /\ agent.pc = "chat" /\ agent.by # "direct"
  /\ busy
  /\ inputs < MaxInputs
  /\ Len(queue) < MaxQueue
  /\ inputs' = inputs + 1
  /\ queue' = Append(queue, "queued")
  /\ UNCHANGED <<worldVars, last, last_ok, stream, plan, session, runner, conv, pc, calls, idx, interrupted,
                 busy, nested, chats, cut, agent>>

\* run_conversation_turn: chat_stream returns
ChatReturn ==
  \E resp \in (IF chats <= MaxToolChats THEN Responses ELSE {<<>>}) :
    /\ pc = "chat"
    /\ IF interrupted
       THEN /\ interrupted' = FALSE
            /\ pc' = "sleep_break"
            /\ UNCHANGED <<conv, calls, idx, busy, queue, nested, chats>>
       ELSE \E tool_calls \in {ToolCalls(chats, resp)} :
              \E c \in {add_assistant_message(conv, tool_calls)} :
                IF tool_calls = <<>>
                THEN FinishTurn(c)
                ELSE /\ conv' = c
                     /\ calls' = tool_calls
                     /\ idx' = 1
                     /\ pc' = "tools"
                     /\ UNCHANGED <<interrupted, busy, queue, nested, chats>>
    /\ UNCHANGED <<worldVars, last, last_ok, stream, plan, session, runner, inputs, cut, agent>>

\* run_conversation_turn: chat_stream raises (an error that is no connection
\* error, or the RuntimeError after the last retry).  Nothing catches it
\* before main_loop's `except Exception`, which shows the error and awaits
\* the next input; on the way only the finally block of the @agent branch's
\* queue drain resets the busy flag
ChatRaises ==
  /\ pc = "chat"
  /\ pc' = "input"
  /\ busy' = IF nested = "mention" THEN FALSE ELSE busy
  /\ nested' = "no"
  /\ interrupted' = FALSE
  /\ calls' = <<>>
  /\ idx' = 0
  /\ UNCHANGED <<worldVars, last, last_ok, stream, plan, session, runner, conv, queue,
                 chats, inputs, cut, agent>>

\* run_conversation_turn: one iteration of the for loop over the tool calls,
\* up to the await of a sub-agent if the tool is task
ToolStep ==
  /\ pc = "tools"
  /\ \E tool_call \in {calls[idx]} :
       IF interrupted
       THEN /\ interrupted' = FALSE
            /\ pc' = "sleep_return"
            /\ cut' = TRUE
            /\ UNCHANGED <<worldVars, last, conv, calls, idx, chats, agent>>
       ELSE IF tool_call.name = "task"
       THEN /\ agent' = StartAgent("tool", tool_call.arguments.agent_type,
                                   create_agent(tool_call.arguments.agent_type))
            /\ pc' = "agent"
            /\ UNCHANGED <<worldVars, last, conv, calls, idx, interrupted,
                           chats, cut>>
       ELSE \E r \in {ToolRegistry_execute(World, tool_call.name, tool_call.arguments)} :
              /\ SetWorld(r.w)
              /\ last' = Observed("foreground", {}, tool_call, r.w, r.result, TRUE, {})
              /\ AfterTool(add_tool_result(conv, tool_call, r.result))
              /\ UNCHANGED <<cut, agent>>
  /\ UNCHANGED <<last_ok, stream, plan, session, runner, busy, queue, nested, inputs>>

\* TaskTool.execute: run_agent returns, and the output is the observation
TaskReturn ==
  /\ pc = "agent"
  /\ agent.pc = "done"
  /\ agent.by = "tool"
  /\ pc' = IF idx < Len(calls) THEN "tools" ELSE IF interrupted THEN "sleep_break" ELSE "chat"
  /\ conv' = add_tool_result(conv, calls[idx], Text("agent output"))
  /\ IF idx < Len(calls)
     THEN idx' = idx + 1 /\ UNCHANGED <<calls, interrupted, chats>>
     ELSE /\ calls' = <<>>
          /\ idx' = 0
          /\ interrupted' = FALSE
          /\ chats' = IF interrupted THEN chats ELSE chats + 1
  /\ agent' = IdleAgent
  /\ UNCHANGED <<worldVars, last, last_ok, stream, plan, session, runner, busy, queue, nested, inputs, cut>>

\* main_loop: run_agent returns to the @agent branch: the exchange is
\* appended, then the finally block and its queue drain
MentionReturn ==
  /\ pc = "agent"
  /\ agent.pc = "done"
  /\ agent.by = "mention"
  /\ agent' = IdleAgent
  /\ \E c \in {add_assistant_message(add_user_message(conv, "message"), <<>>)} :
         IF queue # <<>>
         THEN /\ conv' = refresh_task_context(add_user_message(c, Head(queue)), store)
              /\ queue' = Tail(queue)
              /\ busy' = TRUE
              /\ nested' = "mention"
              /\ interrupted' = FALSE
              /\ pc' = "chat"
              /\ chats' = chats + 1
         ELSE /\ conv' = c
              /\ queue' = queue
              /\ busy' = FALSE
              /\ nested' = "no"
              /\ interrupted' = FALSE
              /\ pc' = "input"
              /\ chats' = chats
  /\ UNCHANGED <<worldVars, last, last_ok, stream, plan, session, runner, calls, idx, inputs, cut>>

\* run() returns to the caller that made the GeneralAgent
RunGeneralReturn ==
  /\ pc = "agent"
  /\ agent.pc = "done"
  /\ agent.by = "direct"
  /\ agent' = IdleAgent
  /\ pc' = "input"
  /\ UNCHANGED <<worldVars, last, last_ok, stream, plan, session, runner, conv, calls, idx, interrupted, busy,
                 queue, nested, chats, inputs, cut>>

\* run_conversation_turn: the sleep after an interrupt seen at the top of the
\* loop or after the response is over; break, and the end of the turn
SleepBreak ==
  /\ pc = "sleep_break"
  /\ FinishTurn(conv)
  /\ UNCHANGED <<worldVars, last, last_ok, stream, plan, session, runner, inputs, cut, agent>>

\* run_conversation_turn: the sleep after an interrupt seen between two tool
\* calls is over; set_busy(False) and return.  A turn that main_loop awaits
\* is back at get_input_async; one that a queue drain awaits goes on with
\* the drain (the drain of main_loop resets the input state first)
SleepReturn ==
  /\ pc = "sleep_return"
  /\ IF nested = "no"
     THEN /\ pc' = "input"
          /\ busy' = FALSE
          /\ interrupted' = FALSE
          /\ calls' = <<>>
          /\ idx' = 0
          /\ UNCHANGED <<conv, queue, nested, chats>>
     ELSE Drain(conv, interrupted /\ nested = "turn")
  /\ UNCHANGED <<worldVars, last, last_ok, stream, plan, session, runner, inputs, cut, agent>>

\* an agent's run: client.chat returns
\* an agent's run: client.chat returns the response with the tool calls resp
AgentReply(resp) ==
    /\ pc = "agent"
    /\ agent.pc = "chat"
    /\ \E tool_calls \in {ToolCalls(agent.turn, resp)},
          pt \in {IF agent.class = "plan"
                  THEN extract_and_create_tasks(store, agent.tasks, ReplyText)
                  ELSE [store |-> store, tasks |-> agent.tasks]} :
         \E a \in {[agent EXCEPT !.messages = add_assistant_message(@, tool_calls),
                                 !.tasks = pt.tasks]},
            w \in {[World EXCEPT !.store = pt.store]} :
           /\ SetWorld(w)
           /\ agent' = IF tool_calls = <<>> THEN NoToolCalls(a, w)
                       ELSE [a EXCEPT !.pc = "tools", !.calls = tool_calls, !.idx = 1,
                                      !.consecutive_no_tools = 0]
    /\ UNCHANGED <<last, last_ok, stream, plan, session, runner, conv, pc, calls, idx, interrupted, busy,
                   queue, nested, chats, inputs, cut>>

AgentChat ==
  \E resp \in (IF agent.turn < MaxAgentToolTurns THEN AgentResponses ELSE {<<>>}) :
    AgentReply(resp)

\* an agent's run: one iteration of the for loop over the tool calls
AgentTool ==
  /\ pc = "agent"
  /\ agent.pc = "tools"
  /\ \E tool_call \in {agent.calls[agent.idx]} :
       \E r \in {AgentToolCall(agent, World, tool_call)} :
         \E a \in {[r.a EXCEPT !.messages = add_tool_result(@, tool_call, r.result)]} :
           /\ SetWorld(r.w)
           /\ last' = [Observed(agent.class, agent.allowed_tools, tool_call, r.w,
                                r.result, r.passed, r.a.files_modified)
                         EXCEPT !.cancelled = agent.signal # "none"]
           /\ agent' = IF agent.idx < Len(agent.calls)
                       THEN [a EXCEPT !.idx = @ + 1]
                       ELSE NextTurn(a)
  /\ UNCHANGED <<last_ok, stream, plan, session, runner, conv, pc, calls, idx, interrupted, busy, queue,
                 nested, chats, inputs, cut>>

\* the session starts with a file nobody has read
Init ==
  /\ files = [p \in {PathX} |-> TextHi]
  /\ InitWorld

Next ==
  \/ Submit
  \/ Mention
  \/ RunGeneral
  \/ Interrupt
  \/ QueueInput
  \/ ChatReturn
  \/ ToolStep
  \/ TaskReturn
  \/ MentionReturn
  \/ RunGeneralReturn
  \/ SleepBreak
  \/ SleepReturn
  \/ AgentChat
  \/ AgentTool

Spec == Init /\ [][Next]_vars

(***************************************************************************)
(* The agents alone: runs started through AgentRunner.run_agent or by a    *)
(* caller of GeneralAgent.run, and their cancellation                      *)
(***************************************************************************)
\* AgentRunner.run_agent(name, prompt), or GeneralAgent(...).run(prompt)
RunAgent ==
  \E made \in {create_agent(t) : t \in SpawnNames} \cup {GeneralAgent} :
    /\ pc = "input"
    /\ inputs < MaxInputs
    /\ inputs' = inputs + 1
    /\ agent' = StartAgent("direct", made.class, made)
    /\ pc' = "agent"
    /\ UNCHANGED <<worldVars, last, last_ok, stream, plan, session, runner, conv, calls, idx, interrupted,
                   busy, queue, nested, chats, cut>>

\* Agent.cancel() (AgentRunner.cancel_current, cancel_agent), or the
\* cancel_check callback starting to return true, while the agent awaits
\* client.chat
Cancel ==
  \E s \in {"flag", "check"} :
    /\ pc = "agent"
    /\ agent.pc = "chat"
    /\ agent.signal = "none"
    /\ agent' = [agent EXCEPT !.signal = s, !.cancelled_at = Len(agent.messages)]
    /\ UNCHANGED <<worldVars, last, last_ok, stream, plan, session, runner, conv, pc, calls, idx, interrupted,
                   busy, queue, nested, chats, inputs, cut>>

NextAgents == RunAgent \/ Cancel \/ AgentChat \/ AgentTool \/ RunGeneralReturn

SpecAgents == Init /\ [][NextAgents]_vars


(***************************************************************************)
(* chat_stream alone: one call, the lines of its responses and the ways    *)
(* its attempts end                                                        *)
(***************************************************************************)
\* chat_stream(messages, tools, on_content, max_retries) is called
StreamStart ==
  \E m \in 0..DefaultMaxRetries :
    /\ stream.pc = "idle"
    /\ stream' = [IdleStream EXCEPT !.pc = "reading", !.max_retries = m]
    /\ UNCHANGED <<worldVars, last, last_ok, loopVars, plan, session, runner>>

\* the state after one line of the response
ReadLine(s, line) ==
  IF line.kind = "content" /\ line.content # <<>>
  THEN [s EXCEPT !.full_content = s.full_content \o line.content,
                 !.arrived = s.arrived \o line.content,
                 !.delivered = s.delivered \o line.content,
                 !.read = s.read + 1, !.total = s.total + 1]
  ELSE IF line.kind = "tool_call"
  THEN [s EXCEPT !.tool_calls_data = merge_fragment(s.tool_calls_data, line),
                 !.fragments = Append(s.fragments, line),
                 !.read = s.read + 1, !.total = s.total + 1]
  ELSE [s EXCEPT !.read = s.read + 1, !.total = s.total + 1]

\* one line comes out of response.aiter_lines()
StreamLine ==
  \E line \in Lines :
    /\ stream.pc = "reading"
    /\ stream.total < MaxLines
    /\ stream' = ReadLine(stream, line)
    /\ UNCHANGED <<worldVars, last, last_ok, loopVars, plan, session, runner>>

\* the attempt has ended: what it streamed and how it ended are recorded
Ended(s, how) ==
  [s EXCEPT !.streamed = Append(s.streamed, s.arrived),
            !.ends = Append(s.ends, how)]

\* the line "data: [DONE]", or the end of the response
StreamDone ==
  /\ stream.pc = "reading"
  /\ stream' = [Ended(stream, "done") EXCEPT
                  !.pc = "returned",
                  !.message = CompletedMessage(stream.full_content,
                                               stream.tool_calls_data)]
  /\ UNCHANGED <<worldVars, last, last_ok, loopVars, plan, session, runner>>

\* the except clause of the retry loop
Failed(s, e) ==
  IF s.attempt < s.max_retries
  THEN [Ended(s, e) EXCEPT
          !.slept = Append(s.slept, backoff(s.attempt)),
          !.attempt = s.attempt + 1,
          !.full_content = fresh_content(s.full_content),
          !.tool_calls_data = <<>>,
          !.read = 0, !.arrived = <<>>, !.fragments = <<>>]
  ELSE IF s.full_content # <<>>
  THEN [Ended(s, e) EXCEPT !.pc = "returned",
                           !.message = InterruptedMessage(s.full_content)]
  ELSE [Ended(s, e) EXCEPT !.pc = "raised", !.error = "RuntimeError"]

\* the request or a read of the response raises a connection-level error
StreamConnectionError ==
  \E e \in ConnectionErrors :
    /\ stream.pc = "reading"
    /\ stream' = Failed(stream, e)
    /\ UNCHANGED <<worldVars, last, last_ok, loopVars, plan, session, runner>>

\* raise_for_status raises before the first line, or a read times out: the
\* exception leaves chat_stream
StreamOtherError ==
  \E e \in OtherErrors :
    /\ stream.pc = "reading"
    /\ e = "HTTPStatusError" => stream.read = 0
    /\ stream' = [Ended(stream, e) EXCEPT !.pc = "raised", !.error = e]
    /\ UNCHANGED <<worldVars, last, last_ok, loopVars, plan, session, runner>>

NextStream ==
  StreamStart \/ StreamLine \/ StreamDone \/ StreamConnectionError \/ StreamOtherError

SpecStream == Init /\ [][NextStream]_vars


(***************************************************************************)
(* The TaskStore alone: tasks are created, updated, deleted, and the store *)
(* is cleared                                                              *)
(***************************************************************************)
\* the calls of TaskStore.create one run makes at most
MaxCreates == 3

\* Registry.execute("task_create", ...)
TaskCreate ==
  \E s \in {TextHi, TextI} :
    /\ Len(store.issued) < MaxCreates
    /\ Call("task_create", [subject |-> s])

\* Registry.execute("task_update", ...), status deleted included
TaskUpdate ==
  \E i \in 1..MaxCreates, status \in TaskStatuses :
    Call("task_update", [task_id |-> i, status |-> status])

\* TaskStore.get_instance().clear()
TaskClear ==
  /\ store' = TaskStore_clear(store)
  /\ last' = [NoCall EXCEPT !.op = "clear", !.who = "direct",
                            !.store_unchanged = TaskStore_clear(store) = store]
  /\ UNCHANGED <<files, read_files, mode, session_approvals, persistent_approvals,
                 spawned, last_ok, loopVars, stream, plan, session, runner>>

NextTasks == TaskCreate \/ TaskUpdate \/ TaskClear

SpecTasks == Init /\ [][NextTasks]_vars


(***************************************************************************)
(* Plan mode alone: the calls of enter_plan_mode, write_plan and           *)
(* exit_plan_mode                                                          *)
(***************************************************************************)
\* the plan tool calls one run makes at most
MaxPlanCalls == 5

PlanState == [plan |-> plan, files |-> files, store |-> store]

\* the subjects of the checkbox lines of a content
Subjects(content) ==
  {FindTasks(content, 1)[n] : n \in DOMAIN FindTasks(content, 1)} \ {<<>>}

\* one call of a plan tool: r is what its execute gives back, written the
\* subjects the session has written after it
PlanCall(name, args, r, base, written) ==
  /\ session.calls < MaxPlanCalls
  /\ plan' = r.ps.plan
  /\ files' = r.ps.files
  /\ store' = r.ps.store
  /\ session' = [base |-> base, written |-> written, calls |-> session.calls + 1]
  /\ last' = [NoCall EXCEPT
                !.op = name, !.args = args, !.result = r.result, !.who = "direct",
                !.passed = TRUE, !.plan_before = plan,
                !.unchanged = r.ps.plan = plan /\ r.ps.files = files,
                !.store_unchanged = r.ps.store = store]
  /\ UNCHANGED <<read_files, mode, session_approvals, persistent_approvals,
                 spawned, last_ok, loopVars, stream, runner>>

\* Registry.execute("enter_plan_mode", {})
PlanEnter ==
  PlanCall("enter_plan_mode", <<>>, EnterPlanModeTool_execute(PlanState),
           store.counter, {})

\* Registry.execute("write_plan", {content})
PlanWrite ==
  \E content \in Plans :
    PlanCall("write_plan", [content |-> content],
             WritePlanTool_execute(PlanState, content), session.base,
             IF plan.active /\ CheckboxLine(content)
             THEN session.written \cup Subjects(content)
             ELSE session.written)

\* Registry.execute("exit_plan_mode", {})
PlanExit ==
  PlanCall("exit_plan_mode", <<>>, ExitPlanModeTool_execute(PlanState),
           session.base, session.written)

NextPlan == PlanEnter \/ PlanWrite \/ PlanExit

SpecPlan == Init /\ [][NextPlan]_vars


(***************************************************************************)
(* The agents over all their turns: the model answers with a tool call for *)
(* some turns, and from its first answer without tool call on it makes no  *)
(* tool call again                                                         *)
(***************************************************************************)
\* the loop has sent the agent a corrective user message
Corrected(a) == \E n \in 3..Len(a.messages) : a.messages[n].role = "user"

\* the response of a long run: none, or a write of a file with a syntax error
LongResponses == {<<>>, <<WritePyCall(TextDefBad)>>}

AgentChatOn ==
  \E resp \in (IF Corrected(agent) THEN {<<>>} ELSE LongResponses) :
    AgentReply(resp)

NextTurns == RunAgent \/ AgentChatOn \/ AgentTool \/ RunGeneralReturn

\* each chat request and each tool call returns
SpecTurns == Init /\ [][NextTurns]_vars /\ WF_vars(NextTurns)


(***************************************************************************)
(* The background agents alone: spawns, the ends of the runs, cancel_agent *)
(* and task_output, with the seconds that pass while task_output waits     *)
(***************************************************************************)
\* the background agents one run starts at most
MaxSpawns == 2

\* the seconds a wait is followed for
MaxTicks == 3

\* the timeouts task_output is given
Timeouts == {0, 1, 2}

\* the names background agents are asked for
BackgroundNames == {"explore", "plan", "reviewer"}

\* a step of the runner that is no tool call
RunnerStep(r) ==
  /\ runner' = r
  /\ UNCHANGED <<worldVars, last, last_ok, loopVars, stream, plan, session>>

\* TaskTool.execute with run_in_background
SpawnBackground ==
  \E name \in BackgroundNames :
    /\ runner.wait.pc = "idle"
    /\ Len(runner.runs) < MaxSpawns
    /\ RunnerStep(run_agent_background(runner, Len(runner.runs) + 1,
                                       create_agent(name).class))

\* the agent.run of a background agent ends
RunEnds ==
  \E id \in DOMAIN runner.runs, event \in RunEvents :
    /\ runner.runs[id].state = "running"
    /\ RunnerStep(run_and_store(runner, id, event))

\* AgentRunner.cancel_agent(agent_id)
CancelAgent ==
  \E id \in runner.running : RunnerStep(cancel_agent(runner, id))

\* Registry.execute("task_output", ...) up to its return or its await
TaskOutput ==
  \E id \in 1..MaxSpawns, wait \in BOOLEAN, timeout \in Timeouts :
    \E r \in {TaskOutputTool_execute(runner, id, wait, timeout)} :
      /\ runner.wait.pc = "idle"
      /\ runner' = r.runner
      /\ last' = [NoCall EXCEPT
                    !.op = "task_output",
                    !.args = [agent_id |-> id, wait |-> wait, timeout |-> timeout],
                    !.result = r.result, !.who = "direct", !.passed = r.returned,
                    !.runner_before = runner]
      /\ UNCHANGED <<worldVars, last_ok, loopVars, stream, plan, session>>

\* a second passes while task_output waits
WaitTick ==
  /\ runner.wait.pc = "waiting"
  /\ runner.runs[runner.wait.id].state = "running"
  /\ runner.wait.elapsed < MaxTicks
  /\ has_timer(runner.wait.timeout) => runner.wait.elapsed < runner.wait.timeout
  /\ RunnerStep([runner EXCEPT !.wait.elapsed = @ + 1])

\* the wait of task_output ends: the task has ended, or the timer runs out
WaitReturn ==
  /\ runner.wait.pc = "waiting"
  /\ \/ /\ runner.runs[runner.wait.id].state # "running"
        /\ runner' = [runner EXCEPT !.wait = NoWait]
        /\ last' = [last EXCEPT !.result = AwaitEnds(runner), !.passed = TRUE]
     \/ /\ runner.runs[runner.wait.id].state = "running"
        /\ has_timer(runner.wait.timeout)
        /\ runner.wait.elapsed = runner.wait.timeout
        /\ runner' = AwaitTimesOut(runner)
        /\ last' = [last EXCEPT !.result = Result("Agent", "did not complete within",
                                                  Str(runner.wait.timeout)),
                                !.passed = TRUE]
  /\ UNCHANGED <<worldVars, last_ok, loopVars, stream, plan, session>>

NextRunner ==
  SpawnBackground \/ RunEnds \/ CancelAgent \/ TaskOutput \/ WaitTick \/ WaitReturn

SpecRunner == Init /\ [][NextRunner]_vars


(***************************************************************************)
(* The Conversation alone: its five operations, and task_create between    *)
(* them                                                                    *)
(***************************************************************************)
\* the messages a conversation grows to
MaxMessages == 3

\* an operation of the Conversation that leaves messages in it
ConvOp(name, messages) ==
  /\ conv' = messages
  /\ last' = [NoCall EXCEPT !.op = name, !.prev_op = last.op, !.who = "direct"]
  /\ UNCHANGED <<worldVars, last_ok, stream, plan, session, runner, pc, calls, idx,
                 interrupted, busy, queue, nested, chats, inputs, cut, agent>>

ConvAddUser ==
  /\ Len(conv) < MaxMessages
  /\ ConvOp("Conversation.add_user_message", add_user_message(conv, "message"))

ConvAddAssistant ==
  /\ Len(conv) < MaxMessages
  /\ ConvOp("Conversation.add_assistant_message", add_assistant_message(conv, <<>>))

ConvAddToolResult ==
  /\ Len(conv) < MaxMessages
  /\ ConvOp("Conversation.add_tool_result",
            add_tool_result(conv, ToolCalls(1, <<ReadCall>>)[1], Text("lines")))

ConvRefresh ==
  ConvOp("Conversation.refresh_task_context", refresh_task_context(conv, store))

ConvClear ==
  ConvOp("Conversation.clear", Conversation_clear(conv, store))

NextConv ==
  \/ ConvAddUser
  \/ ConvAddAssistant
  \/ ConvAddToolResult
  \/ ConvRefresh
  \/ ConvClear
  \/ TaskCreate

SpecConv == Init /\ [][NextConv]_vars


(***************************************************************************)
(* Properties                                                              *)
(***************************************************************************)
\* the assistant message at position i of m is followed by exactly one tool
\* message per tool call, with the ids of the calls in their order
Answered(m, i) ==
  /\ i + Len(m[i].tool_calls) <= Len(m)
  /\ \A j \in 1..Len(m[i].tool_calls) :
       /\ m[i + j].role = "tool"
       /\ m[i + j].tool_call_id = m[i].tool_calls[j].id
  /\ i + Len(m[i].tool_calls) + 1 <= Len(m)
       => m[i + Len(m[i].tool_calls) + 1].role # "tool"

\* every assistant message of m is answered
WellFormed(m) == \A i \in 1..Len(m) : m[i].role = "assistant" => Answered(m, i)

\* m ends with the assistant message that carries the tool calls cs and the
\* observations of the first n - 1 of them, in order
Working(m, cs, n) ==
  /\ n >= 1
  /\ Len(m) - (n - 1) >= 1
  /\ m[Len(m) - (n - 1)].role = "assistant"
  /\ m[Len(m) - (n - 1)].tool_calls = cs
  /\ \A j \in 1..(n - 1) :
       /\ m[Len(m) - (n - 1) + j].role = "tool"
       /\ m[Len(m) - (n - 1) + j].tool_call_id = cs[j].id

\* C1: in the foreground loop and in every sub-agent loop the assistant
\* message is appended before its observations, the tool calls are worked
\* through one at a time in the emitted order, each observation appended
\* right after its call, and when a turn or a run completes with no tool
\* batch cut by an interrupt every assistant message with k tool calls is
\* directly followed by exactly k tool messages with the calls' ids in order
TurnAnswersEveryCall ==
  /\ (pc \in {"input", "chat"} /\ ~cut) => WellFormed(conv)
  /\ pc = "tools" => Working(conv, calls, idx)
  /\ (pc = "agent" /\ agent.by = "tool") => Working(conv, calls, idx)
  /\ agent.pc = "tools" => Working(agent.messages, agent.calls, agent.idx)
  /\ agent.pc \in {"chat", "done"} => WellFormed(agent.messages)

\* C1 witness: a foreground turn with a two-call response has completed with
\* no interrupt, the second observation two places after the assistant message
TurnAnswersEveryCallWitness ==
  /\ pc = "input"
  /\ ~cut
  /\ agent.pc = "idle"
  /\ \E i \in 1..Len(conv) :
       /\ conv[i].role = "assistant"
       /\ Len(conv[i].tool_calls) = 2
       /\ conv[i + 2].role = "tool"
       /\ conv[i + 2].tool_call_id = conv[i].tool_calls[2].id

\* C2: in the foreground conversation every assistant message that carries
\* tool calls has one observation per call, unless it is the message whose
\* calls are being worked through right now; so no user message and no chat
\* request comes after a message that an interrupt left short
ObservationsBeforeNextTurn ==
  \A i \in 1..Len(conv) :
    conv[i].role = "assistant" =>
      \/ Answered(conv, i)
      \/ pc \in {"tools", "agent"} /\ i = Len(conv) - (idx - 1)

\* C3: write_file on a file that exists and is not in the read set, and
\* edit_file on a path that is not in the read set, return an Error: string
\* and leave the files and the read set as they were
UnreadFileIsNotModified ==
  /\ (last.op = "write_file" /\ last.existed /\ ~last.was_read)
       => (IsErrorResult(last.result) /\ last.unchanged)
  /\ (last.op = "edit_file" /\ ~last.was_read)
       => (IsErrorResult(last.result) /\ last.unchanged)

\* C3 witness: a write_file to an existing file that was not read is refused
UnreadFileIsNotModifiedWitness ==
  /\ last.op = "write_file"
  /\ last.existed
  /\ ~last.was_read
  /\ last.result.text = "Cannot write - file exists but has not been read first"
  /\ \E p \in DOMAIN files : files[p] = TextHH

\* C4: a path is in the read set exactly when the latest successful
\* operation on it was a read_file, and a successful write_file or edit_file
\* of an existing file comes right after a successful read of it
ReadSetIsLatestRead ==
  /\ \A p \in CanonicalPaths : (p \in read_files) <=> (last_ok[p] = "read_file")
  /\ (/\ last.op \in {"write_file", "edit_file"}
      /\ last.result.prefix = "Successfully"
      /\ last.existed)
       => last.prev_ok = "read_file"

\* C4 witness: an existing file was edited after a read that returned
\* (empty file) or its lines, and is out of the read set again
ReadSetIsLatestReadWitness ==
  /\ last.op = "edit_file"
  /\ last.result.prefix = "Successfully"
  /\ last.prev_ok = "read_file"
  /\ ResolvePath(last.args.file_path) \notin read_files
  /\ read_files # {}

\* C5: in an agent with a non-empty allow-list a tool call outside the list
\* is not passed to Registry.execute: the observation is the not-allowed
\* error and the files, the read set and the task store stay as they were
AllowListIsEnforced ==
  (/\ last.who \in {"explore", "plan", "plugin"}
   /\ last.allow_list # {}
   /\ last.op \notin last.allow_list)
    => /\ ~last.passed
       /\ last.result = NotAllowed(last.op)
       /\ last.unchanged
       /\ last.store_unchanged

\* C6: an agent asked for as `general` through the runner is a GeneralAgent:
\* no allow-list, and the finish hooks of its loop
RunnerMakesGeneralAgent ==
  (agent.by \in {"tool", "mention"} /\ agent.requested = "general")
    => (agent.class = "general" /\ agent.allowed_tools = {})

\* C7: in the general and plugin loops a task_update with status completed
\* is passed to Registry.execute only if the modification set is not empty
\* and every file in it passes the syntax check; otherwise the observation
\* is the Cannot-mark-task-complete error and the task store is unchanged
CompletionIsGated ==
  (/\ last.who \in {"general", "plugin"}
   /\ last.op = "task_update"
   /\ Get(last.args, "status", None) = "completed")
    => /\ last.passed => (last.modified # {} /\ last.syntax_ok)
       /\ ~(last.modified # {} /\ last.syntax_ok)
            => /\ ~last.passed
               /\ last.result \in {NoFilesModified, HasSyntaxErrors}
               /\ IsErrorResult(last.result)
               /\ last.store_unchanged

\* C7 witness: a plugin agent that wrote a Python file with a syntax error
\* asks to complete a task and is refused
CompletionIsGatedWitness ==
  /\ last.who = "plugin"
  /\ last.op = "task_update"
  /\ last.modified # {}
  /\ ~last.syntax_ok
  /\ last.result = HasSyntaxErrors

\* C8: in every mode a check of a call the classifier calls dangerous returns
\* not-allowed with the classifier's reason, unless the approval key of the
\* call is approved
DangerousNeedsApproval ==
  (/\ last.op = "check_permission"
   /\ danger_reason_of(last.args.tool, last.args.args) # None)
    => IF last.approved
       THEN last.allowed
       ELSE /\ ~last.allowed
            /\ last.danger_reason = danger_reason_of(last.args.tool, last.args.args)

\* C8 witness: in auto mode the check of `rm -rf ~/Downloads` is not allowed
DangerousNeedsApprovalWitness ==
  /\ last.op = "check_permission"
  /\ last.mode = "auto"
  /\ last.args.tool = "bash"
  /\ last.args.args.command = CmdRmHome
  /\ ~last.allowed
  /\ last.danger_reason = "Recursive delete in root or home directory"

\* C9: in approve mode a bash, write_file or edit_file call that executes
\* has an approved key
ApproveModeNeedsApproval ==
  (/\ last.who = "direct"
   /\ last.mode = "approve"
   /\ \/ last.op = "bash" /\ last.spawn
      \/ last.op \in {"write_file", "edit_file"} /\ last.result.prefix = "Successfully")
    => last.approved

ModesDecideSafeCalls ==
  (/\ last.op = "check_permission"
   /\ danger_reason_of(last.args.tool, last.args.args) = None)
    => (last.allowed
         <=> \/ <<last.args.tool, get_approval_key(last.args.tool, last.args.args)>>
                  \in session_approvals \cup persistent_approvals
             \/ last.mode = "auto"
             \/ /\ last.mode = "approve"
                /\ last.args.tool \notin {"write_file", "edit_file", "bash"})

\* C13 witness: in manual mode a read_file with no approval is not allowed
ModesDecideSafeCallsWitness ==
  /\ last.op = "check_permission"
  /\ last.args.tool = "read_file"
  /\ last.mode = "manual"
  /\ ~last.allowed
  /\ last.danger_reason = None
  /\ session_approvals # {}

\* C14: once cancellation is asked of a running agent it passes no tool call
\* to the registry and appends no message to its conversation
CancelledAgentStops ==
  /\ ~(last.cancelled /\ last.passed)
  /\ agent.signal # "none" => Len(agent.messages) = agent.cancelled_at

\* C15: a run during which cancellation was asked returns the cancelled
\* AgentResult (success false), never a success
CancelledRunFails ==
  (agent.pc = "done" /\ agent.signal # "none") => agent.outcome = "cancelled"

\* C16: when every attempt of chat_stream has failed with a connection-level
\* error and some attempt streamed content, the call returns a Message whose
\* content is content received followed by the interruption suffix and whose
\* tool_calls is None; it raises only when no attempt streamed content.
ExhaustedRetriesKeepContent ==
  ( /\ stream.pc \in {"returned", "raised"}
    /\ \A n \in DOMAIN stream.ends : stream.ends[n] \in ConnectionErrors )
  => IF \E n \in DOMAIN stream.streamed : stream.streamed[n] # <<>>
     THEN /\ stream.pc = "returned"
          /\ stream.message.tool_calls_none
          /\ \E n \in DOMAIN stream.streamed :
               /\ stream.streamed[n] # <<>>
               /\ stream.message.content = stream.streamed[n] \o InterruptedSuffix
     ELSE stream.pc = "raised"

\* chat_stream has returned from an attempt that read its response to the end
ReturnedCompleted ==
  /\ stream.pc = "returned"
  /\ stream.ends[Len(stream.ends)] = "done"

\* C17: when chat_stream returns after an attempt that completed, the
\* content of the Message is the concatenation of the content deltas of that
\* attempt alone (None when that is empty), and with no failed attempt it is
\* the concatenation of what on_content was given.
CompletedStreamContent ==
  ReturnedCompleted =>
    /\ stream.message.content = stream.streamed[Len(stream.streamed)]
    /\ stream.message.content_none <=> stream.message.content = <<>>
    /\ Len(stream.ends) = 1 => stream.message.content = stream.delivered

\* a retried call has returned: the attempt that failed had streamed Hel, the
\* attempt that completed streamed lo
CompletedStreamContentWitness ==
  /\ ReturnedCompleted
  /\ Len(stream.ends) = 2
  /\ stream.streamed = <<ContentHel, ContentLo>>
  /\ stream.message.content = ContentLo
  /\ stream.delivered = ContentHel \o ContentLo

\* C18: chat_stream makes at most max_retries + 1 attempts; it starts an
\* attempt after the first only when the one before failed with a
\* connection-level error with attempts left, and after a sleep of attempt + 1
\* seconds; once it has returned or raised it makes no attempt.
BoundedRetries ==
  /\ [](stream.attempt <= stream.max_retries /\ Len(stream.ends) <= stream.max_retries + 1)
  /\ [][stream'.attempt # stream.attempt =>
          /\ stream'.attempt = stream.attempt + 1
          /\ stream.pc = "reading"
          /\ stream.attempt < stream.max_retries
          /\ stream'.ends[Len(stream'.ends)] \in ConnectionErrors
          /\ stream'.slept = Append(stream.slept, stream.attempt + 1)]_vars
  /\ [][Len(stream'.ends) > Len(stream.ends) + 1 => FALSE]_vars
  /\ [][stream.pc \in {"returned", "raised"} => stream' = stream]_vars

\* the third attempt of a call with max_retries = 2 has completed, after
\* sleeps of one and of two seconds
BoundedRetriesWitness ==
  /\ ReturnedCompleted
  /\ stream.max_retries = 2
  /\ stream.attempt = 2
  /\ stream.slept = <<1, 2>>

\* the fragments of index i among fs
RECURSIVE IndexFragments(_, _)
IndexFragments(fs, i) ==
  IF fs = <<>> THEN <<>>
  ELSE IF fs[1].index = i THEN <<fs[1]>> \o IndexFragments(Tail(fs), i)
  ELSE IndexFragments(Tail(fs), i)

\* the first id among fs that is not empty
RECURSIVE FirstId(_)
FirstId(fs) ==
  IF fs = <<>> THEN ""
  ELSE IF fs[1].id # "" THEN fs[1].id
  ELSE FirstId(Tail(fs))

\* the first name among fs that is not empty
RECURSIVE FirstName(_)
FirstName(fs) ==
  IF fs = <<>> THEN ""
  ELSE IF fs[1].name # "" THEN fs[1].name
  ELSE FirstName(Tail(fs))

\* the argument strings of fs, one after the other
RECURSIVE AllArguments(_)
AllArguments(fs) ==
  IF fs = <<>> THEN <<>>
  ELSE fs[1].arguments \o AllArguments(Tail(fs))

FragmentIndexes == {stream.fragments[j].index : j \in DOMAIN stream.fragments}

\* the tool call tc is what the fragments fs of one index assemble to
AssembledFrom(tc, fs) ==
  /\ tc.id = FirstId(fs)
  /\ tc.name = FirstName(fs)
  /\ AllArguments(fs) = <<>> => tc.arguments = <<>>
  /\ json_loads(AllArguments(fs)).ok =>
       tc.arguments = unescape_html_in_dict(json_loads(AllArguments(fs)).value)

\* C19: the tool calls of a completed attempt are one per fragment index, in
\* the order of the indexes; each has the first non-empty id and the first
\* non-empty name of its index, and as arguments the parse of its argument
\* fragments concatenated in arrival order (an empty string gives an empty map).
FragmentsMergeByIndex ==
  ReturnedCompleted =>
    /\ Len(stream.message.tool_calls) = Cardinality(FragmentIndexes)
    /\ \A n \in 1..Len(stream.message.tool_calls) :
         AssembledFrom(stream.message.tool_calls[n],
                       IndexFragments(stream.fragments, SortedKeys(FragmentIndexes)[n]))

\* C20: the ids TaskStore.create gives are strictly increasing, whatever
\* creates, updates, deletions and clears came between: no id is given twice.
TaskIdsNeverReused ==
  \A i, j \in DOMAIN store.issued : i < j => store.issued[i] < store.issued[j]

\* C21: exit_plan_mode succeeds, and sets plan mode inactive, only in a
\* state where plan mode is active, plan_content is not empty and
\* created_tasks is not empty; a rejected exit changes nothing, so plan mode
\* stays active.
ExitNeedsPlanAndTasks ==
  last.op = "exit_plan_mode" =>
    IF IsErrorResult(last.result)
    THEN plan = last.plan_before /\ last.unchanged /\ last.store_unchanged
    ELSE /\ last.plan_before.active
         /\ last.plan_before.plan_content # <<>>
         /\ last.plan_before.created_tasks # <<>>
         /\ ~plan.active

\* an exit has succeeded on a plan with the tasks a and b
ExitNeedsPlanAndTasksWitness ==
  /\ last.op = "exit_plan_mode"
  /\ ~IsErrorResult(last.result)
  /\ last.plan_before.plan_content = PlanAB
  /\ Len(last.plan_before.created_tasks) = 2
  /\ ~plan.active

\* C22: a write_plan while plan mode is inactive, or with a content without
\* checkbox line, returns an Error and leaves plan_content, the plan file,
\* created_tasks and the Task store as they were; plan_content becomes
\* non-empty only by a write_plan accepted while plan mode is active.
RejectedWritePlanChangesNothing ==
  /\ ( /\ last.op = "write_plan"
       /\ ~last.plan_before.active \/ ~CheckboxLine(last.args.content) )
     => /\ IsErrorResult(last.result)
        /\ plan = last.plan_before
        /\ last.unchanged
        /\ last.store_unchanged
  /\ ( /\ last.op # "none"
       /\ plan.plan_content # <<>>
       /\ plan.plan_content # last.plan_before.plan_content )
     => /\ last.op = "write_plan"
        /\ last.plan_before.active
        /\ ~IsErrorResult(last.result)
        /\ plan.plan_content = last.args.content

\* a write_plan without checkbox line has been refused in plan mode, with a
\* plan written before
RejectedWritePlanChangesNothingWitness ==
  /\ last.op = "write_plan"
  /\ last.plan_before.active
  /\ last.args.content = TextHi
  /\ IsErrorResult(last.result)
  /\ plan.plan_content = PlanA
  /\ Len(plan.created_tasks) = 1

\* the ids of the tasks created since the enter_plan_mode of the session
SessionTasks == {i \in DOMAIN store.tasks : i > session.base}

TurnCap(class) ==
  CASE class = "explore" -> ExploreMaxTurns
    [] class = "plan" -> PlanMaxTurns
    [] class = "general" -> GeneralMaxTurns
    [] OTHER -> PluginMaxTurns

\* the chat requests of the run that have returned: the assistant messages
RECURSIVE ChatsOf(_)
ChatsOf(messages) ==
  IF messages = <<>> THEN 0
  ELSE (IF messages[1].role = "assistant" THEN 1 ELSE 0) + ChatsOf(Tail(messages))

\* C24: a sub-agent run makes at most as many chat requests as its turn cap
\* (explore 10, plan 15, general 30, plugin 50), the turns that follow a
\* corrective user message of a finish hook included, and it ends when every
\* chat request and tool call returns.
RunEndsWithinTurnCap ==
  /\ [](agent.pc # "idle" =>
          /\ ChatsOf(agent.messages) <= TurnCap(agent.class)
          /\ agent.pc = "chat" => ChatsOf(agent.messages) < TurnCap(agent.class))
  /\ (agent.pc = "chat") ~> (agent.pc = "done")

\* a general agent has ended with its thirtieth chat request, after
\* corrective user messages of the finish hook
RunEndsWithinTurnCapWitness ==
  /\ agent.pc = "done"
  /\ agent.class = "general"
  /\ ChatsOf(agent.messages) = GeneralMaxTurns
  /\ Corrected(agent)

\* C25: every id a background spawn has returned is in the running map as
\* long as its run has not ended, and in the completed results, and no longer
\* in the running map, once the run has ended by completing, by raising or
\* by being cancelled.
SpawnedIdInOnePlace ==
  \A id \in DOMAIN runner.runs :
    IF runner.runs[id].state = "running"
    THEN id \in runner.running /\ id \notin DOMAIN runner.completed
    ELSE id \notin runner.running /\ id \in DOMAIN runner.completed

\* what the call of task_output met: the id had a completed result, or it was
\* in the running map
MetCompleted == last.args.agent_id \in DOMAIN last.runner_before.completed
MetRunning == last.args.agent_id \in last.runner_before.running

\* C26: task_output returns the stored output when the id has a completed
\* result, an error when the id is neither completed nor running, and
\* `still running` at once when the agent runs and wait is false; otherwise
\* it waits at most timeout seconds, for every timeout, 0 included, and
\* returns the result or a did-not-complete message.
TaskOutputAnswers ==
  /\ runner.wait.pc = "waiting" => runner.wait.elapsed <= runner.wait.timeout
  /\ (last.op = "task_output" /\ last.passed) =>
       IF MetCompleted
       THEN /\ last.result.prefix = "Agent completed."
            /\ last.result.arg = last.runner_before.completed[last.args.agent_id].output
       ELSE IF ~MetRunning
       THEN IsErrorResult(last.result)
       ELSE IF ~last.args.wait
       THEN last.result.text = "is still running"
       ELSE \/ /\ last.result.prefix = "Agent completed."
               /\ last.args.agent_id \in DOMAIN runner.completed
               /\ last.result.arg = runner.completed[last.args.agent_id].output
            \/ last.result.text = "did not complete within"

\* C30: an exception raised inside the run of a sub-agent does not leave the
\* agent, whatever its type: the run gives an AgentResult with success false
\* and the error set, and a background agent that fails has a stored result.
ExceptionBecomesResult ==
  \A id \in DOMAIN runner.runs :
    runner.runs[id].event = "chat_raises" =>
      /\ runner.runs[id].state = "done"
      /\ id \in DOMAIN runner.completed
      /\ ~runner.completed[id].success
      /\ runner.completed[id].error # None



(***************************************************************************)
(* conversation.py: the Conversation                                       *)
(***************************************************************************)
\* the step appends one message of the role and touches no other
Appends(role) ==
  /\ Len(conv') = Len(conv) + 1
  /\ SubSeq(conv', 1, Len(conv)) = conv
  /\ conv'[Len(conv')].role = role

\* the message a fresh prompt assembly gives for the task store st
FreshSystemMessage(st) ==
  Message("system", Result("", "system prompt", get_active_plan_tasks(st)),
          <<>>, None, None)

\* C27: after any sequence of add_user_message, add_assistant_message,
\* add_tool_result, refresh_task_context and clear the conversation is
\* non-empty and its first message has role system; an add only appends,
\* refresh replaces the head message only, by a fresh assembly, and clear,
\* also when a refresh follows it, leaves exactly one message, the freshly
\* assembled system message
ConversationKeepsItsHead ==
  /\ [](/\ Len(conv) > 0
        /\ conv[1].role = "system"
        /\ last.op = "Conversation.clear" => conv = <<FreshSystemMessage(store)>>
        /\ last.op = "Conversation.refresh_task_context" /\ last.prev_op = "Conversation.clear"
              => conv = <<FreshSystemMessage(store)>>)
  /\ [][/\ last'.op = "Conversation.add_user_message" => Appends("user")
        /\ last'.op = "Conversation.add_assistant_message" => Appends("assistant")
        /\ last'.op = "Conversation.add_tool_result" => Appends("tool")
        /\ last'.op = "Conversation.refresh_task_context" =>
              /\ Len(conv') = Len(conv)
              /\ \A i \in 2..Len(conv) : conv'[i] = conv[i]
              /\ conv'[1] = FreshSystemMessage(store')
        /\ last'.op = "Conversation.clear" => conv' = <<FreshSystemMessage(store')>>]_vars

\* a clear and then a refresh, with active tasks in the store, after the
\* conversation had grown
ConversationKeepsItsHeadWitness ==
  /\ last.op = "Conversation.refresh_task_context"
  /\ last.prev_op = "Conversation.clear"
  /\ Len(conv) = 1
  /\ Len(conv[1].content.arg) = 2


(***************************************************************************)
(* main.py: the system prompt of a chat request                            *)
(***************************************************************************)
\* C28: at every chat request of the foreground loop, the second and later
\* ones of a user turn included, the head of the conversation is the system
\* message a fresh prompt assembly gives: its active tasks are exactly the
\* tasks that are pending or in_progress at that moment
HeadIsFreshAtEveryRequest ==
  pc = "chat" =>
    /\ conv[1].role = "system"
    /\ conv[1].content = build_system_prompt(store)


(***************************************************************************)
(* main.py: the queued messages                                            *)
(***************************************************************************)
\* C29: every user message queued while a turn is busy is appended to the
\* conversation and given a turn of its own, first in first out, once the
\* turn settles, by a reply without tool calls or by an interruption: when
\* the foreground is back at its prompt no message is left in the queue
QueueDrainedWhenTurnSettles ==
  pc = "input" => queue = <<>>


(***************************************************************************)
(* tools/registry.py: what execute gives its caller                        *)
(***************************************************************************)
\* C31: Registry.execute(name, args) always returns a string and never
\* raises to its caller: whatever the tool raises comes back as the string
\* `Error executing <name>: <msg>`; here for task_output, whose call has
\* come back
RegistryExecuteReturnsAString ==
  last.op = "task_output" /\ last.passed => last.result.prefix # "CancelledError"


(***************************************************************************)
(* agents/runner.py: a wait that times out                                 *)
(***************************************************************************)
\* C38: a task_output wait on a running background agent that times out
\* has no effect on the agent: its run is not cancelled by the timeout, it
\* goes on, completes and leaves the running map
TimedOutWaitLeavesAgentRunning ==
  /\ last.op = "task_output"
  /\ last.passed
  /\ last.result.text = "did not complete within"
  => runner.runs[last.args.agent_id].state # "cancelled"


(***************************************************************************)
(* tools/glob_grep.py: grep over a directory                               *)
(*                                                                         *)
(* A tree is the files of search_path.glob in the order of the walk, each  *)
(* the number of its lines the pattern matches; a row of the results is    *)
(* [file, line_num].                                                       *)
(***************************************************************************)
max_matches == 100

\* the files of a tree at most
MaxFiles == 3

\* the matching lines a file has
MatchCounts == {0, 1, 50, 100, 101}

RECURSIVE SeqsUpTo(_, _)
SeqsUpTo(S, n) ==
  IF n = 0 THEN {<<>>}
  ELSE SeqsUpTo(S, n - 1) \cup {Append(t, x) : t \in SeqsUpTo(S, n - 1), x \in S}

Trees == SeqsUpTo(MatchCounts, MaxFiles) \ {<<>>}

\* search_file: a row for every matching line of file i
search_file(i, n) == [k \in 1..n |-> [file |-> i, line_num |-> k]]

\* the for loop over the files from file i on, with the results so far: the
\* rows of a file are all added, then the loop breaks at max_matches
RECURSIVE WalkFrom(_, _, _), Extended(_, _, _)
WalkFrom(tree, i, results) ==
  IF i > Len(tree) THEN results
  ELSE Extended(tree, i, results \o search_file(i, tree[i]))

Extended(tree, i, results) ==
  IF Len(results) >= max_matches THEN results ELSE WalkFrom(tree, i + 1, results)

\* the output: the rows of results[:max_matches], and whether the notice
\* `... (showing first 100 of N matches)` follows them
GrepOutput(results) ==
  [rows |-> SubSeq(results, 1, IF Len(results) < max_matches THEN Len(results)
                               ELSE max_matches),
   notice |-> Len(results) > max_matches,
   no_matches |-> results = <<>>]

\* GrepTool.execute on a directory
GrepTool_execute(tree) == GrepOutput(WalkFrom(tree, 1, <<>>))

\* Registry.execute("grep", ...)
GrepCall ==
  \E tree \in Trees :
    /\ last' = [NoCall EXCEPT !.op = "grep", !.args = [tree |-> tree],
                              !.result = Result("", "output", GrepTool_execute(tree)),
                              !.who = "direct", !.passed = TRUE]
    /\ UNCHANGED <<worldVars, last_ok, loopVars, stream, plan, session, runner>>

SpecGrep == Init /\ [][GrepCall]_vars

\* the matching lines of a tree
RECURSIVE MatchingLines(_)
MatchingLines(tree) ==
  IF tree = <<>> THEN 0 ELSE Head(tree) + MatchingLines(Tail(tree))

\* C32: grep over a tree with more than 100 matching lines, however they
\* are spread over the files, returns exactly 100 rows followed by the
\* truncation notice
GrepShowsHundredAndNotice ==
  last.op = "grep" /\ MatchingLines(last.args.tree) > 100 =>
    /\ Len(last.result.arg.rows) = 100
    /\ last.result.arg.notice


(***************************************************************************)
(* agents/general.py, agents/plugin_agent.py: the finish attempts          *)
(***************************************************************************)
\* the STOP messages of the first n messages that follow the latest tool
\* observation of them
RECURSIVE StopsSinceTool(_, _)
StopsSinceTool(messages, n) ==
  IF n = 0 \/ messages[n].role = "tool" THEN 0
  ELSE (IF messages[n] = UserMessage("STOP") THEN 1 ELSE 0)
       + StopsSinceTool(messages, n - 1)

\* C33: in the general and the plugin agent the consecutive `STOP - You have
\* syntax errors` messages with no tool call between them are limited by a
\* bound of their own, below what the turn cap alone lets through (a run
\* whose first turn wrote the file has max_turns - 1 turns left)
FinishAttemptsAreLimited ==
  agent.class \in {"general", "plugin"} =>
    StopsSinceTool(agent.messages, Len(agent.messages)) < TurnCap(agent.class) - 1


(***************************************************************************)
(* agents/plugin_agent.py: the reminder of the pending tasks               *)
(***************************************************************************)
\* the responses of a plugin agent's model here: none, or a task_create
ReminderResponses == {<<>>, <<TaskCreateCall>>}

\* AgentRunner.run_agent for an agent of the plugin registry
RunPlugin ==
  \E name \in DOMAIN PluginAgents :
    /\ pc = "input"
    /\ inputs < MaxInputs
    /\ inputs' = inputs + 1
    /\ agent' = StartAgent("direct", name, create_agent(name))
    /\ pc' = "agent"
    /\ UNCHANGED <<worldVars, last, last_ok, stream, plan, session, runner, conv, calls,
                   idx, interrupted, busy, queue, nested, chats, cut>>

AgentChatReminder ==
  \E resp \in (IF agent.turn < MaxAgentToolTurns THEN ReminderResponses ELSE {<<>>}) :
    AgentReply(resp)

NextReminder == RunPlugin \/ AgentChatReminder \/ AgentTool \/ RunGeneralReturn

SpecReminder == Init /\ [][NextReminder]_vars

\* the agent has tools for task management: named in its allow-list, or
\* offered because the allow-list is empty
TaskToolsAvailable(a) ==
  \/ a.allowed_tools = {}
  \/ a.allowed_tools \cap {"task_list", "task_update"} # {}

\* C34: a plugin agent with task-management tools that stops emitting tool
\* calls while the Task store holds pending or in_progress tasks gets a
\* reminder and continues while its consecutive no-tool-call count is below
\* 3: its run rests on a reply without tool calls only from the third
\* consecutive one on
PendingTasksAreReminded ==
  /\ agent.class = "plugin"
  /\ TaskToolsAvailable(agent)
  /\ HasPending(store)
  /\ agent.messages[Len(agent.messages)].role = "assistant"
  /\ agent.messages[Len(agent.messages)].tool_calls = <<>>
  => agent.consecutive_no_tools >= 3


(***************************************************************************)
(* agents/general.py, agents/plugin_agent.py: the modification set         *)
(***************************************************************************)
\* a write of the file that exists and that nobody has read
WriteXCall ==
  [name |-> "write_file", arguments |-> [file_path |-> PathX, content |-> TextHH]]

\* the responses of an agent's model here: none, a task_create, or a write
\* the read-before-modify gate refuses followed by the completion of task 1
TrackResponses == {<<>>, <<TaskCreateCall>>, <<WriteXCall, TaskDoneCall>>}

AgentChatTrack ==
  \E resp \in (IF agent.turn < MaxAgentToolTurns THEN TrackResponses ELSE {<<>>}) :
    AgentReply(resp)

NextTrack == RunAgent \/ AgentChatTrack \/ AgentTool \/ RunGeneralReturn

SpecTrack == Init /\ [][NextTrack]_vars

\* an edit_file or write_file of the run has returned a success
SucceededWrite(messages) ==
  \E n \in 1..Len(messages) :
    /\ messages[n].role = "tool"
    /\ messages[n].name \in {"edit_file", "write_file"}
    /\ messages[n].content.prefix = "Successfully"

\* C35: in the general and plugin agents a path enters the modification set
\* only through an edit_file or write_file call that returned a success, so
\* an agent whose edit_file and write_file calls all returned `Error:` has an
\* empty set and no task_update status=completed of it is executed
OnlySuccessesAreTracked ==
  agent.class \in {"general", "plugin"} /\ agent.files_modified # {}
    => SucceededWrite(agent.messages)


(***************************************************************************)
(* permissions.py: approvals given for calls that are not dangerous        *)
(***************************************************************************)
\* the gated calls the classifier does not call dangerous
OrdinaryCalls == {call \in GatedCalls : danger_reason_of(call[1], call[2]) = None}

\* the user answers `yes` or `always` only to calls that are not dangerous
PermApproveOrdinary == PermApproveOf(OrdinaryCalls)

NextOrdinary == PermSetMode \/ PermCheck \/ PermApproveOrdinary

SpecOrdinary == InitPerm /\ [][NextOrdinary]_vars

\* C36: an approval recorded for a call that is not dangerous never makes a
\* later dangerous call with the same approval key allowed: while approvals
\* are given to ordinary calls only, no dangerous call is allowed
OrdinaryApprovalStaysOrdinary ==
  (/\ last.op = "check_permission"
   /\ danger_reason_of(last.args.tool, last.args.args) # None)
    => ~last.allowed


(***************************************************************************)
(* main.py: the busy flag at the prompt                                    *)
(***************************************************************************)
NextRaising == Next \/ ChatRaises

\* the foreground loop with a chat_stream that may raise
SpecRaising == Init /\ [][NextRaising]_vars

\* C37: whenever main_loop waits for input the busy flag is false, so the
\* next line is delivered to main_loop and not queued: a turn that ends by a
\* reply without tool calls, by an interruption or by an exception resets it
PromptIsNotBusy ==
  pc = "input" => ~busy


(***************************************************************************)
(* agents/runner.py: run_agent calls in progress together, side by side    *)
(* under run_agents_parallel or one inside the other through the task tool *)
(***************************************************************************)
\* the calls of run_agent one run is followed for
MaxRunAgents == 3

\* the calls of run_agent in progress
InProgress(r) ==
  {id \in DOMAIN r.run_agent_calls : r.run_agent_calls[id].state = "running"}

\* the agent of the call awaits a run_agent of its own task tool
AwaitsChild(r, id) == \E c \in InProgress(r) : r.run_agent_calls[c].parent = id

\* run_agent begins: by the foreground or run_agents_parallel (parent 0), or
\* by TaskTool.execute of an agent that is running
RunAgentBegins ==
  \E parent \in {0} \cup {id \in InProgress(runner) : ~AwaitsChild(runner, id)} :
    /\ Len(runner.run_agent_calls) < MaxRunAgents
    /\ RunnerStep(run_agent_begin(runner, parent))

\* the agent.run of a call ends, by a return or by an exception
RunAgentEnds ==
  \E id \in InProgress(runner) :
    /\ ~AwaitsChild(runner, id)
    /\ RunnerStep(run_agent_end(runner, id))

\* AgentRunner.cancel_current()
CancelCurrent ==
  /\ runner.run_agent_calls # <<>>
  /\ runner' = cancel_current(runner)
  /\ last' = [NoCall EXCEPT !.op = "cancel_current", !.runner_before = runner]
  /\ UNCHANGED <<worldVars, last_ok, loopVars, stream, plan, session>>

NextCurrent == RunAgentBegins \/ RunAgentEnds \/ CancelCurrent

SpecCurrent == Init /\ [][NextCurrent]_vars

\* C39: while a run_agent call is in progress the current-agent reference
\* points to an agent that is still running, so that cancel_current cancels
\* a running agent; it is None only when no call is in progress
CurrentAgentIsRunning ==
  InProgress(runner) # {} => runner.current_agent \in InProgress(runner)


(***************************************************************************)
(* agents: what a run that reports success ended on                        *)
(***************************************************************************)
\* the index of the last assistant message among the first n, 0 if none
RECURSIVE LastAssistant(_, _)
LastAssistant(messages, n) ==
  IF n = 0 THEN 0
  ELSE IF messages[n].role = "assistant" THEN n
  ELSE LastAssistant(messages, n - 1)

\* C40: a run returns success = true only if its last assistant message
\* carried no tool calls; a run the turn cap ended while the model was still
\* calling tools is not reported as a success
SuccessMeansTheModelStopped ==
  (agent.pc = "done" /\ agent.outcome = "success")
    => \E n \in {LastAssistant(agent.messages, Len(agent.messages))} :
         n # 0 /\ agent.messages[n].tool_calls = <<>>

====
